---- MODULE Spec2Model ----
(***************************************************************************)
(* A model of the DexYCB loader utilities (loader_utils.py): the joint     *)
(* convention remapping engine, the quaternion to axis-angle conversion    *)
(* and the YCB object registry.  Each component has its own variables and  *)
(* its own specification; a component's specification leaves the other     *)
(* components' variables at their idle values.                             *)
(*                                                                         *)
(* Python indices are kept 0-based: an array axis of length N is a         *)
(* function on 0..N-1.                                                     *)
(***************************************************************************)
EXTENDS Integers, Sequences, FiniteSets, TLC

VARIABLES
    jSrc,      \* joints: the source JointConvention
    jDst,      \* joints: the destination JointConvention
    jR,        \* joints: JointReindexer(jSrc, jDst), or why it was not built
    jInv,      \* joints: jR.inverse()
    jOrig,     \* joints: the array the current chain of apply calls began with
    jIn,       \* joints: the argument of the last apply call
    jOut,      \* joints: what the last apply call returned or raised
    jChain,    \* joints: which reindexers were applied so far ("r" / "inv")
    qP,        \* quaternions: the batch P, shaped (L, 4), scalar first
    qOut,      \* quaternions: what quaternionToAxisAngle(P) returned
    gFirst,    \* registry: the key the current chain of lookups began with
    gArg,      \* registry: the key of the last lookup
    gRes,      \* registry: what the last lookup returned or raised
    gChain,    \* registry: the lookups made so far, in order
    lPc,       \* loader: the step of DexYCBLoader.__init__ that is due
    lErr,      \* loader: the exception that left __init__, and the step it left
    lObj,      \* loader: the attributes of the DexYCBLoader under construction
    lMeta,     \* loader: meta.yml, as far as the steps have read it
    lPose,     \* loader: the two arrays loaded from pose.npz
    lRet,      \* loader: what the caller of DexYCBLoader(...) holds
    lFrame,    \* loader: the outcome of the last as_dict(frame)
    sTree,     \* split: the meta.yml files under the data root
    sFiles,    \* split: the listing and manifest files of the output directories
    sSplit,    \* split: the dict the last split returned
    sPersisted,\* split: per output directory, the dict last written into it
    sBuilt,    \* split: the last build, while nothing was written after it
    sRead,     \* split: the last read_side_paths call and its outcome
    bPc,       \* batch: where the driver stands
    bCfg,      \* batch: the driver called and the side it was configured with
    bData,     \* batch: what each sequence directory under the data root holds
    bSides,    \* batch: the sides still to process, the current one first
    bQueue,    \* batch: the entries of the current listing still to process
    bLoader,   \* batch: the DexYCBLoader of the current entry
    bFrame,    \* batch: the next frame of the current entry
    bOut,      \* batch: the pickles written
    bErr       \* batch: the exception that left the driver

jointVars == <<jSrc, jDst, jR, jInv, jOrig, jIn, jOut, jChain>>

quatVars == <<qP, qOut>>

regVars == <<gFirst, gArg, gRes, gChain>>

loaderVars == <<lPc, lErr, lObj, lMeta, lPose, lRet, lFrame>>

splitVars == <<sTree, sFiles, sSplit, sPersisted, sBuilt, sRead>>

batchVars == <<bPc, bCfg, bData, bSides, bQueue, bLoader, bFrame, bOut, bErr>>

vars == <<jSrc, jDst, jR, jInv, jOrig, jIn, jOut, jChain, qP, qOut,
          gFirst, gArg, gRes, gChain, lPc, lErr, lObj, lMeta, lPose, lRet, lFrame,
          sTree, sFiles, sSplit, sPersisted, sBuilt, sRead,
          bPc, bCfg, bData, bSides, bQueue, bLoader, bFrame, bOut, bErr>>

\* What the steps of one component leave alone.
notJointVars == <<quatVars, regVars, loaderVars, splitVars, batchVars>>

notQuatVars == <<jointVars, regVars, loaderVars, splitVars, batchVars>>

notRegVars == <<jointVars, quatVars, loaderVars, splitVars, batchVars>>

notLoaderVars == <<jointVars, quatVars, regVars, splitVars, batchVars>>

notSplitVars == <<jointVars, quatVars, regVars, loaderVars, batchVars>>

notBatchVars == <<jointVars, quatVars, regVars, loaderVars, splitVars>>

\* ------------------------------------------------------------------ bounds

\* Largest joint index a generated (configuration dictionary) layout uses.
MaxIdx == 2

\* Largest leading (batch) dimension of an array passed to apply.
MaxBatch == 2

\* Quaternion components range over -QMax..QMax.
QMax == 2

\* Largest number of quaternions in one batch P.
MaxQuatBatch == 2

\* Integer keys looked up in the registry reach this far past its ids.
KeySpan == 2

\* Longest candidate id list (ycb_ids) of a meta.yml.
MaxCandidates == 2

\* Largest frame count: of the arrays of pose.npz, and of num_frames.
MaxFrames == 2

\* Most hands (second axis of pose_m) in a pose.npz.
MaxHands == 2

\* Most objects (second axis of pose_y) in a pose.npz.
MaxObjects == 2

\* Most sequence directories under the data root.
MaxSeqs == 2

\* ------------------------------------------------------------- small helpers

Max(S) == CHOOSE m \in S : \A k \in S : k <= m

Min(S) == CHOOSE m \in S : \A k \in S : m <= k

Range(f) == {f[k] : k \in DOMAIN f}

\* ------------------------------------------------------- JointConvention

\* The layout dictionary in iteration order: one entry per (finger, k, idx),
\* as the two comprehensions of JointConvention.__init__ enumerate it.
RECURSIVE Entries(_)
Entries(layout) ==
    IF layout = <<>> THEN <<>>
    ELSE LET p == Head(layout)
         IN  [k \in 1..Len(p.ids) |-> [sem |-> <<p.part, k - 1>>, idx |-> p.ids[k]]]
             \o Entries(Tail(layout))

\* A dict comprehension: a key met twice keeps the value of its last entry
\* (hits are the positions of the entries that carry the key).
Last(es, hits) == es[Max(hits)]

IdxToSem(es) ==
    [i \in {es[n].idx : n \in DOMAIN es} |-> Last(es, {n \in DOMAIN es : es[n].idx = i}).sem]

SemToIdx(es) ==
    [s \in {es[n].sem : n \in DOMAIN es} |-> Last(es, {n \in DOMAIN es : es[n].sem = s}).idx]

JointConvention(name, layout) ==
    LET es == Entries(layout)
    IN  [name       |-> name,
         layout     |-> layout,
         idx_to_sem |-> IdxToSem(es),
         sem_to_idx |-> SemToIdx(es),
         size       |-> Max({es[n].idx : n \in DOMAIN es}) + 1]

\* The (part, position) labels a layout names.
Labels(layout) == {e.sem : e \in Range(Entries(layout))}

\* ---------------------------------------------------------- JointReindexer

NoPerm == <<>>

\* A reindexer keeps references to its two convention objects: "jSrc" and
\* "jDst" name the variables that hold them.
Conv(ref) == IF ref = "jSrc" THEN jSrc ELSE jDst

NoReindexer == [status |-> "none", src |-> "", dst |-> "", perm |-> NoPerm]

\* len(perm): perm is a function on 0..n-1.
PermSize(perm) == Cardinality(DOMAIN perm)

\* A reindexer built the wrong way round: perm[i] looks the source's label
\* of index i up in the destination.
JointReindexerSwapped(src, dst) ==
    LET N == Conv(dst).size
        found(i) == /\ i \in DOMAIN Conv(src).idx_to_sem
                    /\ Conv(src).idx_to_sem[i] \in DOMAIN Conv(dst).sem_to_idx
    IN  IF \A i \in 0..(N - 1) : found(i)
        THEN [status |-> "ok", src |-> src, dst |-> dst,
              perm |-> [i \in 0..(N - 1) |->
                            Conv(dst).sem_to_idx[Conv(src).idx_to_sem[i]]]]
        ELSE [status |-> "KeyError", src |-> "", dst |-> "", perm |-> NoPerm]

\* JointReindexer.__init__: perm[i] = src.sem_to_idx()[dst.idx_to_sem()[i]]
\* for i in range(dst.size); either dictionary lookup may raise KeyError.
JointReindexer(src, dst) ==
    LET N == Conv(dst).size
        found(i) == /\ i \in DOMAIN Conv(dst).idx_to_sem
                    /\ Conv(dst).idx_to_sem[i] \in DOMAIN Conv(src).sem_to_idx
    IN  IF \A i \in 0..(N - 1) : found(i)
        THEN [status |-> "ok", src |-> src, dst |-> dst,
              perm |-> [i \in 0..(N - 1) |->
                            Conv(src).sem_to_idx[Conv(dst).idx_to_sem[i]]]]
        ELSE [status |-> "KeyError", src |-> "", dst |-> "", perm |-> NoPerm]

\* np.argsort(perm): every index order that lists the values of perm in
\* non-decreasing order.  The default sort kind is not stable, so equal
\* values may come out in either order.
RECURSIVE ArgSortsFrom(_, _)
ArgSortsFrom(perm, rest) ==
    IF rest = {} THEN {<<>>}
    ELSE LET m == Min({perm[i] : i \in rest})
         IN  UNION {{<<i>> \o s : s \in ArgSortsFrom(perm, rest \ {i})} :
                        i \in {j \in rest : perm[j] = m}}

ArgSorts(perm) ==
    {[i \in DOMAIN perm |-> s[i + 1]] : s \in ArgSortsFrom(perm, DOMAIN perm)}

\* JointReindexer.inverse: the conventions swapped, perm argsorted.
Inverses(r) ==
    {[status |-> "ok", src |-> r.dst, dst |-> r.src, perm |-> p] : p \in ArgSorts(r.perm)}

\* ------------------------------------------------------------------ arrays

\* Last dimension D of the joint arrays (x, y, z).
JointDim == 3

NoArray == <<>>

\* np.arange(B * N * D).reshape(B, N, D)
Arange(B, N) ==
    [b \in 0..(B - 1) |-> [i \in 0..(N - 1) |->
        [d \in 0..(JointDim - 1) |-> (b * N + i) * JointDim + d]]]

\* joints.shape[-2]
Shape2(x) == Cardinality(DOMAIN x[0])

NoResult == [status |-> "none", value |-> NoArray]

\* An apply that scatters, out[..., perm[i], :] = in[..., i, :], where the
\* code gathers.
ApplyScatter(r, x) ==
    IF Shape2(x) # PermSize(r.perm)
    THEN [status |-> "ValueError", value |-> NoArray]
    ELSE IF \E i \in DOMAIN r.perm : r.perm[i] \notin DOMAIN x[0]
    THEN [status |-> "IndexError", value |-> NoArray]
    ELSE [status |-> "ok",
          value  |-> [b \in DOMAIN x |-> [k \in DOMAIN r.perm |->
                        IF \E i \in DOMAIN r.perm : r.perm[i] = k
                        THEN x[b][CHOOSE i \in DOMAIN r.perm : r.perm[i] = k]
                        ELSE x[b][k]]]]

\* JointReindexer.apply: the shape check against perm.size, then the fancy
\* index joints[..., perm, :], which builds a new array and raises IndexError
\* for an index outside the axis.
Apply(r, x) ==
    IF Shape2(x) # PermSize(r.perm)
    THEN [status |-> "ValueError", value |-> NoArray]
    ELSE IF \E i \in DOMAIN r.perm : r.perm[i] \notin DOMAIN x[0]
    THEN [status |-> "IndexError", value |-> NoArray]
    ELSE [status |-> "ok",
          value  |-> [b \in DOMAIN x |-> [i \in DOMAIN r.perm |-> x[b][r.perm[i]]]]]

\* ------------------------------------------------------- built-in conventions

MANO21Layout ==
    << [part |-> "wrist",  ids |-> <<0>>],
       [part |-> "thumb",  ids |-> <<1, 2, 3, 4>>],
       [part |-> "index",  ids |-> <<5, 6, 7, 8>>],
       [part |-> "middle", ids |-> <<9, 10, 11, 12>>],
       [part |-> "ring",   ids |-> <<13, 14, 15, 16>>],
       [part |-> "pinky",  ids |-> <<17, 18, 19, 20>>] >>

HO3DLayout ==
    << [part |-> "wrist",  ids |-> <<0>>],
       [part |-> "index",  ids |-> <<1, 2, 3, 17>>],
       [part |-> "middle", ids |-> <<4, 5, 6, 18>>],
       [part |-> "ring",   ids |-> <<10, 11, 12, 19>>],
       [part |-> "pinky",  ids |-> <<7, 8, 9, 20>>],
       [part |-> "thumb",  ids |-> <<13, 14, 15, 16>>] >>

MANO21 == JointConvention("MANO21/OpenPose", MANO21Layout)

HO3D == JointConvention("HO3D", HO3DLayout)

\* ------------------------------------------- conventions from a configuration

\* The id lists a configuration dictionary may give a part: wrist one joint,
\* thumb up to two, with any indices in 0..MaxIdx.
IdLists(part) ==
    UNION {[1..n -> 0..MaxIdx] : n \in 1..(IF part = "wrist" THEN 1 ELSE 2)}

ConfigLayouts ==
    {<<[part |-> "wrist", ids |-> w]>> : w \in IdLists("wrist")}
    \cup {<<[part |-> "thumb", ids |-> t]>> : t \in IdLists("thumb")}
    \cup {<<[part |-> "wrist", ids |-> w], [part |-> "thumb", ids |-> t]>> :
            w \in IdLists("wrist"), t \in IdLists("thumb")}
    \cup {<<[part |-> "thumb", ids |-> t], [part |-> "wrist", ids |-> w]>> :
            w \in IdLists("wrist"), t \in IdLists("thumb")}

ConfigConventions == {JointConvention("cfg", l) : l \in ConfigLayouts}


\* ------------------------------------------------------------- quaternions
\* Real numbers are kept exact.  The norm n of the vector part is carried by
\* its square; an axis e / n is the pair (e, n^2); an angle is 0, pi, or
\* 2 * atan(n / w) carried by (n^2, w).

\* ||e||^2 for e = P[..., 1:4]
NormSq(q) == q[2] * q[2] + q[3] * q[3] + q[4] * q[4]

\* A zero test made once for the whole batch instead of per element.
NzMaskWholeBatch(P) == [i \in DOMAIN P |-> \E k \in DOMAIN P : NormSq(P[k]) # 0]

\* nz = n != 0
NzMask(P) == [i \in DOMAIN P |-> NormSq(P[i]) # 0]

\* w_zero = e0 == 0
WZeroMask(P) == [i \in DOMAIN P |-> P[i][1] = 0]

\* np.array([1.0, 0.0, 0.0])
DefaultAxis == [num |-> <<1, 0, 0>>, densq |-> 1]

ZeroAxis == [num |-> <<0, 0, 0>>, densq |-> 1]

ZeroAngle == [form |-> "zero", nsq |-> 0, w |-> 1]

PiAngle == [form |-> "pi", nsq |-> 0, w |-> 1]

\* e[nz] / n[nz, None]
UnitAxis(q) == [num |-> <<q[2], q[3], q[4]>>, densq |-> NormSq(q)]

\* 2.0 * np.arctan(n[mask] / e0[mask])
TwoAtan(q) == [form |-> "2atan", nsq |-> NormSq(q), w |-> q[1]]

\* quaternionToAxisAngle: both outputs start as zeros and are filled through
\* the two masks and their complements.
QuaternionToAxisAngle(P) ==
    LET nz     == NzMask(P)
        axes0  == [i \in DOMAIN P |-> ZeroAxis]
        axes1  == [i \in DOMAIN P |-> IF nz[i] THEN UnitAxis(P[i]) ELSE axes0[i]]
        axes2  == [i \in DOMAIN P |-> IF ~nz[i] THEN DefaultAxis ELSE axes1[i]]
        wzero  == WZeroMask(P)
        ang0   == [i \in DOMAIN P |-> ZeroAngle]
        ang1   == [i \in DOMAIN P |-> IF wzero[i] THEN PiAngle ELSE ang0[i]]
        ang2   == [i \in DOMAIN P |-> IF ~wzero[i] THEN TwoAtan(P[i]) ELSE ang1[i]]
    IN  [done |-> TRUE, axes |-> axes2, angles |-> ang2]

NoQuatOut == [done |-> FALSE, axes |-> <<>>, angles |-> <<>>]

Quats == [1..4 -> (-QMax)..QMax]

\* The quaternions that fill the other slots of a batch.
Companions == {<<1, 0, 0, 0>>, <<0, 0, 0, 1>>, <<1, 1, 0, 0>>, <<0, 0, 0, 0>>}

\* Batches of 1..MaxQuatBatch quaternions: any quaternion in one slot, one
\* companion in the others.
QuatBatches ==
    {[i \in 1..L[1] |-> IF i = L[2] THEN q ELSE c] :
        L \in {<<n, pos>> \in (1..MaxQuatBatch) \X (1..MaxQuatBatch) : pos <= n},
        q \in Quats, c \in Companions}

\* axes, angles = quaternionToAxisAngle(P)
Convert ==
    /\ ~qOut.done
    /\ qP # <<>>
    /\ qOut' = QuaternionToAxisAngle(qP)
    /\ UNCHANGED qP
    /\ UNCHANGED notQuatVars

QuatNext == Convert


\* ---------------------------------------------------------------- registry
\* A Python value used as a key: an int, a float num/den, a str or None.

IntKey(n) == [kind |-> "int", num |-> n, den |-> 1, str |-> ""]

FloatKey(n, d) == [kind |-> "float", num |-> n, den |-> d, str |-> ""]

StrKey(t) == [kind |-> "str", num |-> 0, den |-> 1, str |-> t]

NoneKey == [kind |-> "none", num |-> 0, den |-> 1, str |-> ""]

\* The dictionary literal with one name typed twice: ids 19 and 20 both
\* "051_large_clamp".
YCBItemsRepeatedName ==
    << <<1, "002_master_chef_can">>,   <<2, "003_cracker_box">>,
       <<3, "004_sugar_box">>,         <<4, "005_tomato_soup_can">>,
       <<5, "006_mustard_bottle">>,    <<6, "007_tuna_fish_can">>,
       <<7, "008_pudding_box">>,       <<8, "009_gelatin_box">>,
       <<9, "010_potted_meat_can">>,   <<10, "011_banana">>,
       <<11, "019_pitcher_base">>,     <<12, "021_bleach_cleanser">>,
       <<13, "024_bowl">>,             <<14, "025_mug">>,
       <<15, "035_power_drill">>,      <<16, "036_wood_block">>,
       <<17, "037_scissors">>,         <<18, "040_large_marker">>,
       <<19, "051_large_clamp">>,      <<20, "051_large_clamp">>,
       <<21, "061_foam_brick">> >>

\* The dictionary literal handed to YCBRegistry, in source order.
YCBItems ==
    << <<1, "002_master_chef_can">>,   <<2, "003_cracker_box">>,
       <<3, "004_sugar_box">>,         <<4, "005_tomato_soup_can">>,
       <<5, "006_mustard_bottle">>,    <<6, "007_tuna_fish_can">>,
       <<7, "008_pudding_box">>,       <<8, "009_gelatin_box">>,
       <<9, "010_potted_meat_can">>,   <<10, "011_banana">>,
       <<11, "019_pitcher_base">>,     <<12, "021_bleach_cleanser">>,
       <<13, "024_bowl">>,             <<14, "025_mug">>,
       <<15, "035_power_drill">>,      <<16, "036_wood_block">>,
       <<17, "037_scissors">>,         <<18, "040_large_marker">>,
       <<19, "051_large_clamp">>,      <<20, "052_extra_large_clamp">>,
       <<21, "061_foam_brick">> >>

\* YCBRegistry.__init__: _id_to_name, then _name_to_id by reversing it; a key
\* met twice keeps its last value.
RegIdToName ==
    [k \in {YCBItems[n][1] : n \in DOMAIN YCBItems} |->
        Last(YCBItems, {n \in DOMAIN YCBItems : YCBItems[n][1] = k})[2]]

RegNameToId ==
    [v \in Range(RegIdToName) |->
        Last(YCBItems, {n \in DOMAIN YCBItems : RegIdToName[YCBItems[n][1]] = v})[1]]

\* The str arguments int() parses, with their values; int() raises
\* ValueError on every other str.
IntLiterals ==
    {<<"0", 0>>, <<"5", 5>>, <<"05", 5>>, <<" 7 ", 7>>, <<"21", 21>>, <<"22", 22>>}

\* int(key): an int as it is, a float truncated toward zero, a str parsed;
\* TypeError for None.
PyInt(key) ==
    IF key.kind = "int" THEN [status |-> "ok", val |-> key.num]
    ELSE IF key.kind = "float" THEN
        [status |-> "ok",
         val |-> IF key.num >= 0 THEN key.num \div key.den
                 ELSE -((-key.num) \div key.den)]
    ELSE IF key.kind = "str" THEN
        IF \E l \in IntLiterals : l[1] = key.str
        THEN [status |-> "ok", val |-> (CHOOSE l \in IntLiterals : l[1] = key.str)[2]]
        ELSE [status |-> "ValueError", val |-> 0]
    ELSE [status |-> "TypeError", val |-> 0]

Returned(key) == [status |-> "ok", val |-> key]

Raised(err) == [status |-> err, val |-> NoneKey]

\* YCBRegistry.id_to_name: KeyError and ValueError become ValueError, anything
\* else int() raises passes through.
IdToName(key) ==
    LET i == PyInt(key)
    IN  IF i.status = "TypeError" THEN Raised("TypeError")
        ELSE IF i.status = "ValueError" THEN Raised("ValueError")
        ELSE IF i.val \in DOMAIN RegIdToName
        THEN Returned(StrKey(RegIdToName[i.val]))
        ELSE Raised("ValueError")

\* YCBRegistry.name_to_id: KeyError becomes ValueError.
NameToId(key) ==
    IF key.kind = "str" /\ key.str \in DOMAIN RegNameToId
    THEN Returned(IntKey(RegNameToId[key.str]))
    ELSE Raised("ValueError")

Lookup(op, key) == IF op = "id_to_name" THEN IdToName(key) ELSE NameToId(key)

\* The keys looked up: ints around the registered ids, floats between them,
\* registered and other strs, None.
RegKeys ==
    {IntKey(n) : n \in (1 - KeySpan)..(Len(YCBItems) + KeySpan)}
    \cup {FloatKey(n, 2) : n \in {-1, 1, 3, 5, 2 * Len(YCBItems) + 1, 2 * Len(YCBItems) + 3}}
    \cup {StrKey(YCBItems[n][2]) : n \in DOMAIN YCBItems}
    \cup {StrKey(l[1]) : l \in IntLiterals}
    \cup {StrKey(""), StrKey("062_dice"), StrKey("002_Master_Chef_Can")}
    \cup {NoneKey}

NoLookup == [status |-> "none", val |-> NoneKey]

\* YCB.id_to_name(key) or YCB.name_to_id(key) (also through the shims
\* ycb_id_to_name / ycb_name_to_id) on a fresh key.
LookupFresh ==
    \E op \in {"id_to_name", "name_to_id"}, key \in RegKeys :
        /\ gChain = <<>>
        /\ gFirst' = key
        /\ gArg' = key
        /\ gRes' = Lookup(op, key)
        /\ gChain' = <<op>>
        /\ UNCHANGED notRegVars

\* The other lookup on what the last lookup returned.
LookupBack ==
    \E op \in {"id_to_name", "name_to_id"} :
        /\ Len(gChain) = 1
        /\ gChain[1] # op
        /\ gRes.status = "ok"
        /\ gArg' = gRes.val
        /\ gRes' = Lookup(op, gRes.val)
        /\ gChain' = Append(gChain, op)
        /\ UNCHANGED gFirst
        /\ UNCHANGED notRegVars

RegNext == LookupFresh \/ LookupBack

\* ------------------------------------------------------------- joints: steps

\* The convention held where no reindexer is in use.
IdleConvention == JointConvention("", <<[part |-> "wrist", ids |-> <<0>>]>>)

\* r = JointReindexer(src, dst)
Construct ==
    /\ jR.status = "none"
    /\ jR' = JointReindexer("jSrc", "jDst")
    /\ UNCHANGED <<jSrc, jDst, jInv, jOrig, jIn, jOut, jChain>>
    /\ UNCHANGED notJointVars

\* inv = r.inverse()
Inverse ==
    /\ jR.status = "ok"
    /\ jInv.status = "none"
    /\ jInv' \in Inverses(jR)
    /\ UNCHANGED <<jSrc, jDst, jR, jOrig, jIn, jOut, jChain>>
    /\ UNCHANGED notJointVars

Mapper(which) == IF which = "r" THEN jR ELSE jInv

\* The second-to-last dimensions tried on a reindexer: its permutation's
\* length and the two sizes next to it.
InputSizes(r) == {n \in {PermSize(r.perm) - 1, PermSize(r.perm), PermSize(r.perm) + 1} : n >= 1}

\* y = r.apply(x) or y = inv.apply(x) on a fresh array x.
ApplyFresh ==
    \E which \in {"r", "inv"} :
        /\ Mapper(which).status = "ok"
        /\ jChain = <<>>
        /\ \E B \in 1..MaxBatch, N \in InputSizes(Mapper(which)) :
              /\ jOrig' = Arange(B, N)
              /\ jIn' = Arange(B, N)
              /\ jOut' = Apply(Mapper(which), Arange(B, N))
        /\ jChain' = <<which>>
        /\ UNCHANGED <<jSrc, jDst, jR, jInv>>
        /\ UNCHANGED notJointVars

\* z = r.apply(y) or z = inv.apply(y) on the array y the last call returned.
ApplyAgain ==
    \E which \in {"r", "inv"} :
        /\ Mapper(which).status = "ok"
        /\ Len(jChain) = 1
        /\ jChain[1] # which
        /\ jOut.status = "ok"
        /\ jIn' = jOut.value
        /\ jOut' = Apply(Mapper(which), jOut.value)
        /\ jChain' = Append(jChain, which)
        /\ UNCHANGED <<jSrc, jDst, jR, jInv, jOrig>>
        /\ UNCHANGED notJointVars

JointsNext == Construct \/ Inverse \/ ApplyFresh \/ ApplyAgain

\* ------------------------------------------------------------ DexYCBLoader
\* An optional Python value: None (or a key a mapping does not have) is <<>>,
\* a value v that is there is <<v>>.

None == <<>>

Some(v) == <<v>>

\* mapping.get(key, default)
Get(opt, default) == IF opt = None THEN default ELSE opt[1]

\* A key of meta.yml that no step has read yet, and one that was read.
Unread == [read |-> FALSE, v |-> None]

ReadAs(opt) == [read |-> TRUE, v |-> opt]

NoMeta == [loaded |-> FALSE, isDict |-> FALSE, mano_calib |-> Unread, ycb_ids |-> Unread,
           ycb_grasp_ind |-> Unread, mano_sides |-> Unread, num_frames |-> Unread]

\* The order argument: a str, or a JointConvention built by from_yaml.
StrOrder(s) == [kind |-> "str", str |-> s, conv |-> IdleConvention]

ConvOrder(c) == [kind |-> "conv", str |-> "", conv |-> c]

\* DexYCBLoader.__init__, lines 29-48: the placeholders.  num_frames is not
\* among them; the attribute exists from set_side on.
NewLoader(order) ==
    [order |-> order, handBeta |-> None, objName |-> None, handPose |-> None,
     handTrans |-> None, handJoints3D |-> None, objTrans |-> None, objRot |-> None,
     side |-> None, grasp_idx |-> None, ycb_ids |-> None, ycb_names |-> None,
     grasp_ind |-> None, num_frames |-> None]

NoLoader == NewLoader(StrOrder(""))

\* What a step of the parse hands back: the exception it raised ("" if it
\* returned) and the loader object as the step left it.
Done(obj) == [err |-> "", obj |-> obj]

Raise(err, obj) == [err |-> err, obj |-> obj]

\* Widths of the archive's arrays and of the pieces cut from them.
PoseMWidth == 51

HandPoseWidth == 48

PoseYWidth == 7

QuatWidth == 4

NumJoints == 21

DefaultGraspInd == -1

DefaultNumFrames == 1

\* set_mano_beta: the first calibration id's mano.yml gives the betas.  The
\* calibration file is [exists, betas], betas the length of its "betas" list
\* if it has the key.
set_mano_beta(obj, isDict, calib, file) ==
    IF ~isDict THEN Raise("AttributeError", obj)
    ELSE IF Get(calib, <<>>) = <<>> THEN Raise("IndexError", obj)
    ELSE IF ~file.exists THEN Raise("FileNotFoundError", obj)
    ELSE IF file.betas = None THEN Raise("KeyError", obj)
    ELSE Done([obj EXCEPT !.handBeta = Some(file.betas[1])])

\* [ycb_id_to_name(id) for id in ids]: the exception of the first lookup that
\* raises, else the names.
ycb_names(ids) ==
    LET res == [n \in DOMAIN ids |-> Lookup("id_to_name", IntKey(ids[n]))]
        bad == {n \in DOMAIN ids : res[n].status # "ok"}
    IN  IF bad # {} THEN [err |-> res[Min(bad)].status, names |-> <<>>]
        ELSE [err |-> "", names |-> [n \in DOMAIN ids |-> res[n].val.str]]

\* A set_ycb that looks the grasp index up in the registry where the code
\* looks up the id found at that index.
set_ycbIndexAsId(obj, ids, g) ==
    LET ycb_ids   == Get(ids, <<>>)
        grasp_idx == Get(g, DefaultGraspInd)
        o1     == [obj EXCEPT !.ycb_ids = Some(ycb_ids),
                              !.grasp_ind = Some(grasp_idx),
                              !.grasp_idx = Some(ycb_ids[grasp_idx + 1])]
        names  == ycb_names(ycb_ids)
        o2     == [o1 EXCEPT !.ycb_names = Some(names.names)]
        picked == Lookup("id_to_name", IntKey(grasp_idx))
    IN  IF ycb_ids = <<>> THEN Raise("ValueError", obj)
        ELSE IF grasp_idx < 0 \/ grasp_idx >= Len(ycb_ids) THEN Raise("ValueError", obj)
        ELSE IF names.err # "" THEN Raise(names.err, o1)
        ELSE IF picked.status # "ok" THEN Raise(picked.status, o2)
        ELSE Done([o2 EXCEPT !.objName = Some(picked.val.str)])

\* set_ycb: the candidate ids and the grasp index, checked, then the names
\* of all candidates and of the grasped one.  The attributes assigned before
\* a lookup raises stay assigned.
set_ycb(obj, ids, g) ==
    LET ycb_ids   == Get(ids, <<>>)
        grasp_idx == Get(g, DefaultGraspInd)
        o1     == [obj EXCEPT !.ycb_ids = Some(ycb_ids),
                              !.grasp_ind = Some(grasp_idx),
                              !.grasp_idx = Some(ycb_ids[grasp_idx + 1])]
        names  == ycb_names(ycb_ids)
        o2     == [o1 EXCEPT !.ycb_names = Some(names.names)]
        picked == Lookup("id_to_name", IntKey(ycb_ids[grasp_idx + 1]))
    IN  IF ycb_ids = <<>> THEN Raise("ValueError", obj)
        ELSE IF grasp_idx < 0 \/ grasp_idx >= Len(ycb_ids) THEN Raise("ValueError", obj)
        ELSE IF names.err # "" THEN Raise(names.err, o1)
        ELSE IF picked.status # "ok" THEN Raise(picked.status, o2)
        ELSE Done([o2 EXCEPT !.objName = Some(picked.val.str)])

\* set_side: side[0] of the recorded sides, then num_frames (default 1).
set_side(obj, sides, frames) ==
    LET side == Get(sides, <<>>)
    IN  IF side = <<>> THEN Raise("IndexError", obj)
        ELSE Done([obj EXCEPT !.side = Some(side[1]),
                              !.num_frames = Some(Get(frames, DefaultNumFrames))])

\* set_mano: p = pose_m[:, 0, :], handPose = p[:, :48], handTrans = p[:, 48:51].
\* An array is carried by its shape; a slice past the end of an axis is
\* shorter, not an error.
set_mano(obj, pose_m) ==
    LET shape == pose_m.shape
    IN  IF Len(shape) # 3 THEN Raise("IndexError", obj)
        ELSE IF shape[2] = 0 THEN Raise("IndexError", obj)
        ELSE Done([obj EXCEPT
                !.handPose = Some([shape |-> <<shape[1], Min({shape[3], HandPoseWidth})>>]),
                !.handTrans = Some([shape |-> <<shape[1],
                    Max({0, Min({shape[3], PoseMWidth}) - HandPoseWidth})>>])])

\* mano_to_ho3d(x) = MANO_TO_HO3D.apply(x); jR holds MANO_TO_HO3D.
mano_to_ho3d(x) == Apply(jR, x)

\* set_joints: MANOLayer(side, betas).forward(p, t) is not part of this
\* repository.  It raises when p is not (T, 48) or t is not (T, 3), and it
\* may raise on any input; when it returns, the joints are shaped (T, 21, 3)
\* in its own (MANO) order, numbered here as np.arange does.  Only the str
\* "ho3d" makes set_joints reindex.
set_joints(obj, evaluator) ==
    LET p      == obj.handPose[1].shape
        t      == obj.handTrans[1].shape
        joints == Arange(p[1], NumJoints)
        y      == mano_to_ho3d(joints)
    IN  IF evaluator = "raises" \/ p[2] # HandPoseWidth \/ t[2] # PoseMWidth - HandPoseWidth
        THEN Raise("EvaluatorError", obj)
        ELSE IF obj.order = StrOrder("ho3d")
        THEN IF y.status # "ok"
             THEN Raise(y.status, [obj EXCEPT !.handJoints3D = Some(joints)])
             ELSE Done([obj EXCEPT !.handJoints3D = Some(y.value)])
        ELSE Done([obj EXCEPT !.handJoints3D = Some(joints)])

\* axisAngleToRotvec: axes * angles[..., None], the product kept as the pair.
axisAngleToRotvec(axes, angles) ==
    [i \in DOMAIN axes |-> [axis |-> axes[i], angle |-> angles[i]]]

\* split_pose_y: X = pose_y[:, obj_idx, :], objQuat = X[:, :4],
\* objTrans = X[:, 4:7], objRot through the quaternion conversion.
split_pose_y(pose_y, obj_idx) ==
    LET shape == pose_y.shape
        T     == shape[1]
        X     == [t \in 0..(T - 1) |-> pose_y.data[t][obj_idx]]
        objQuat  == [t \in 0..(T - 1) |-> [k \in 1..QuatWidth |-> X[t][k - 1]]]
        objTrans == [t \in 0..(T - 1) |->
                        [k \in 1..(PoseYWidth - QuatWidth) |-> X[t][QuatWidth + k - 1]]]
        aa    == QuaternionToAxisAngle(objQuat)
    IN  IF ~(Len(shape) = 3 /\ shape[Len(shape)] = PoseYWidth)
        THEN [err |-> "ValueError", objRot |-> <<>>, objTrans |-> <<>>]
        ELSE IF obj_idx >= shape[2]
        THEN [err |-> "IndexError", objRot |-> <<>>, objTrans |-> <<>>]
        ELSE [err |-> "", objRot |-> axisAngleToRotvec(aa.axes, aa.angles),
              objTrans |-> objTrans]

\* A set_ycb_pos that takes the slice at self.grasp_idx, the registry id of
\* the grasped object.
set_ycb_posAtId(obj, pose_y) ==
    IF obj.grasp_idx = None THEN Raise("AttributeError", obj)
    ELSE LET d == split_pose_y(pose_y, obj.grasp_idx[1])
         IN  IF d.err # "" THEN Raise(d.err, obj)
             ELSE Done([obj EXCEPT !.objRot = Some(d.objRot),
                                   !.objTrans = Some(d.objTrans)])

\* set_ycb_pos: the slice of pose_y at self.grasp_ind.
set_ycb_pos(obj, pose_y) ==
    IF obj.grasp_ind = None THEN Raise("AttributeError", obj)
    ELSE LET d == split_pose_y(pose_y, obj.grasp_ind[1])
         IN  IF d.err # "" THEN Raise(d.err, obj)
             ELSE Done([obj EXCEPT !.objRot = Some(d.objRot),
                                   !.objTrans = Some(d.objTrans)])

\* The leading length of each per-frame array of a record.
LeadingLengths(obj) ==
    [handPose     |-> obj.handPose[1].shape[1],
     handTrans    |-> obj.handTrans[1].shape[1],
     objRot       |-> Cardinality(DOMAIN obj.objRot[1]),
     objTrans     |-> Cardinality(DOMAIN obj.objTrans[1]),
     handJoints3D |-> Cardinality(DOMAIN obj.handJoints3D[1])]

\* as_dict(frame): every per-frame array is indexed by frame.
as_dict(obj, frame) ==
    IF \E a \in DOMAIN LeadingLengths(obj) : frame >= LeadingLengths(obj)[a]
    THEN [status |-> "IndexError", frame |-> frame]
    ELSE [status |-> "ok", frame |-> frame]

NoFrame == [status |-> "none", frame |-> 0]

\* --------------------------------------------------- loader: the input files

\* Candidate ids met in meta.yml: two registered ones, the first of them
\* small enough to be a position in pose_y, and one past the registry's
\* last id.
MetaIds == {1, 9, Len(YCBItems) + 1}

\* meta["ycb_ids"]: no such key, or a list of up to MaxCandidates ids.
CandidateLists ==
    {None} \cup {Some(l) : l \in UNION {[1..n -> MetaIds] : n \in 0..MaxCandidates}}

\* meta["ycb_grasp_ind"]: no such key, or an int.
GraspInds == {None} \cup {Some(i) : i \in (-1)..MaxCandidates}

\* meta["mano_calib"]: no such key, or a list of calibration ids.
CalibLists == {None, Some(<<>>), Some(<<"20200709-subject-01_right">>)}

\* Length of the betas list of a calibration file.
BetasLen == 10

\* calibration/mano_<cid>/mano.yml: not there, there without "betas", or
\* there with them.
CalibFiles ==
    {[exists |-> FALSE, betas |-> None], [exists |-> TRUE, betas |-> None],
     [exists |-> TRUE, betas |-> Some(BetasLen)]}

\* meta["mano_sides"]: no such key, or a list of sides.
SideLists ==
    {None, Some(<<>>), Some(<<"left">>), Some(<<"right">>),
     Some(<<"left", "right">>), Some(<<"both">>)}

\* meta["num_frames"]: no such key, or an int.
FrameCounts == {None} \cup {Some(n) : n \in 0..MaxFrames}

\* The order a caller passes: "mano", "ho3d", or a JointConvention that
\* from_yaml built from a configuration dictionary.
Orders ==
    {StrOrder("mano"), StrOrder("ho3d"),
     ConvOrder(JointConvention("mano", MANO21Layout)),
     ConvOrder(JointConvention("ho3d", HO3DLayout))}

\* pose_m as stored in an archive: (T, H, W) with one of H, W off, or two
\* dimensional.
PoseMArrays ==
    {[shape |-> <<T, H, PoseMWidth>>] : T \in 1..MaxFrames, H \in 0..MaxHands}
    \cup {[shape |-> <<T, 1, W>>] : T \in 1..MaxFrames, W \in {PoseMWidth - 1, PoseMWidth + 1}}
    \cup {[shape |-> <<T, PoseMWidth>>] : T \in 1..MaxFrames}

\* The quaternion stored for object o (the same in every frame).
ObjQuat(o) ==
    << <<1, 0, 0, 0>>, <<0, 0, 0, 1>>, <<1, 1, 0, 0>>, <<-1, 1, 0, 0>> >>[(o % 4) + 1]

\* A pose_y shaped (T, O, W): per frame and object a quaternion, then values
\* that tell the frames, objects and columns apart.
PoseY3(T, O, W) ==
    [shape |-> <<T, O, W>>,
     data  |-> [t \in 0..(T - 1) |-> [o \in 0..(O - 1) |-> [k \in 0..(W - 1) |->
                    IF k < QuatWidth THEN ObjQuat(o)[k + 1] ELSE (t * O + o) * W + k]]]]

\* A pose_y shaped (T, W).
PoseY2(T, W) ==
    [shape |-> <<T, W>>,
     data  |-> [t \in 0..(T - 1) |-> [k \in 0..(W - 1) |->
                    IF k < QuatWidth THEN ObjQuat(0)[k + 1] ELSE t * W + k]]]

PoseYArrays ==
    {PoseY3(T, O, PoseYWidth) : T \in 1..MaxFrames, O \in 1..MaxObjects}
    \cup {PoseY3(T, 1, W) : T \in 1..MaxFrames, W \in {PoseYWidth - 1, PoseYWidth + 1}}
    \cup {PoseY2(T, PoseYWidth) : T \in 1..MaxFrames}

\* pose.npz: not there, there without one of the two arrays, or with both:
\* any pose_m with a pose_y of the right width, any pose_y with a pose_m of
\* the right width, and one archive with both arrays two dimensional.
PoseArchives ==
    {[exists |-> FALSE, pose_m |-> None, pose_y |-> None]}
    \cup {[exists |-> TRUE, pose_m |-> None, pose_y |-> Some(PoseY3(1, 1, PoseYWidth))],
          [exists |-> TRUE, pose_m |-> Some([shape |-> <<1, 1, PoseMWidth>>]), pose_y |-> None]}
    \cup {[exists |-> TRUE, pose_m |-> Some(m), pose_y |-> Some(y)] :
            m \in PoseMArrays, y \in {PoseY3(T, O, PoseYWidth) :
                                        T \in 1..MaxFrames, O \in 1..MaxObjects}}
    \cup {[exists |-> TRUE, pose_m |-> Some([shape |-> <<T, 1, PoseMWidth>>]),
           pose_y |-> Some(y)] : T \in 1..MaxFrames, y \in PoseYArrays}
    \cup {[exists |-> TRUE, pose_m |-> Some([shape |-> <<1, PoseMWidth>>]),
           pose_y |-> Some(PoseY2(1, PoseYWidth))]}

\* pose.npz before read_pose has looked for it.
NoPose == [read |-> FALSE, exists |-> FALSE, pose_m |-> None, pose_y |-> None]

NoError == [stage |-> "", type |-> ""]

\* --------------------------------------------------------- loader: the steps

\* A step whose exception is caught and noted, the next step being due all
\* the same.
StepCatches(stage, next, res) ==
    /\ lObj' = res.obj
    /\ lPc' = next
    /\ lErr' = IF res.err = "" THEN lErr ELSE [stage |-> stage, type |-> res.err]

\* A step of __init__ ends: on an exception the constructor is left at once
\* (nothing in it catches), else the next step is due.
Step(stage, next, res) ==
    /\ lObj' = res.obj
    /\ IF res.err = ""
       THEN lPc' = next /\ lErr' = lErr
       ELSE lPc' = "raised" /\ lErr' = [stage |-> stage, type |-> res.err]

\* loader = DexYCBLoader(sequence_name, order): the assert on DEX_YCB_DIR
\* and the placeholders.
NewSequence ==
    /\ lPc = "new"
    /\ \E order \in Orders, env \in BOOLEAN :
          IF env THEN Step("init", "read_meta", Done(NewLoader(order)))
          ELSE Step("init", "read_meta", Raise("AssertionError", lObj))
    /\ UNCHANGED <<lMeta, lPose, lRet, lFrame>>
    /\ UNCHANGED notLoaderVars

\* read_meta, lines 59-64: meta.yml is looked for and loaded; an empty file
\* loads as None.
ReadMeta ==
    /\ lPc = "read_meta"
    /\ \E file \in {"missing", "empty", "mapping"} :
          IF file = "missing"
          THEN Step("read_meta", "set_mano_beta", Raise("FileNotFoundError", lObj))
               /\ UNCHANGED lMeta
          ELSE Step("read_meta", "set_mano_beta", Done(lObj))
               /\ lMeta' = [NoMeta EXCEPT !.loaded = TRUE, !.isDict = (file = "mapping")]
    /\ UNCHANGED <<lPose, lRet, lFrame>>
    /\ UNCHANGED notLoaderVars

\* self.set_mano_beta(meta)
SetManoBeta ==
    /\ lPc = "set_mano_beta"
    /\ \/ /\ ~lMeta.isDict
          /\ Step("set_mano_beta", "set_ycb",
                  set_mano_beta(lObj, FALSE, None, [exists |-> FALSE, betas |-> None]))
          /\ UNCHANGED lMeta
       \/ /\ lMeta.isDict
          /\ \E calib \in CalibLists, file \in CalibFiles :
                /\ Step("set_mano_beta", "set_ycb", set_mano_beta(lObj, TRUE, calib, file))
                /\ lMeta' = [lMeta EXCEPT !.mano_calib = ReadAs(calib)]
    /\ UNCHANGED <<lPose, lRet, lFrame>>
    /\ UNCHANGED notLoaderVars

\* self.set_ycb(meta)
SetYcb ==
    /\ lPc = "set_ycb"
    /\ \E ids \in CandidateLists, g \in GraspInds :
          /\ Step("set_ycb", "set_side", set_ycb(lObj, ids, g))
          /\ lMeta' = [lMeta EXCEPT !.ycb_ids = ReadAs(ids), !.ycb_grasp_ind = ReadAs(g)]
    /\ UNCHANGED <<lPose, lRet, lFrame>>
    /\ UNCHANGED notLoaderVars

\* self.set_side(meta)
SetSide ==
    /\ lPc = "set_side"
    /\ \E sides \in SideLists, frames \in FrameCounts :
          /\ Step("set_side", "read_pose", set_side(lObj, sides, frames))
          /\ lMeta' = [lMeta EXCEPT !.mano_sides = ReadAs(sides), !.num_frames = ReadAs(frames)]
    /\ UNCHANGED <<lPose, lRet, lFrame>>
    /\ UNCHANGED notLoaderVars

\* read_pose, lines 129-137: pose.npz is looked for, its two keys are
\* checked and the two arrays are loaded.
ReadPose ==
    /\ lPc = "read_pose"
    /\ \E z \in PoseArchives :
          /\ lPose' = [read |-> TRUE, exists |-> z.exists,
                       pose_m |-> z.pose_m, pose_y |-> z.pose_y]
          /\ IF ~z.exists
             THEN Step("read_pose", "set_mano", Raise("FileNotFoundError", lObj))
             ELSE IF z.pose_m = None \/ z.pose_y = None
             THEN Step("read_pose", "set_mano", Raise("KeyError", lObj))
             ELSE Step("read_pose", "set_mano", Done(lObj))
    /\ UNCHANGED <<lMeta, lRet, lFrame>>
    /\ UNCHANGED notLoaderVars

\* self.set_mano(pose_m)
SetMano ==
    /\ lPc = "set_mano"
    /\ Step("set_mano", "set_joints", set_mano(lObj, lPose.pose_m[1]))
    /\ UNCHANGED <<lMeta, lPose, lRet, lFrame>>
    /\ UNCHANGED notLoaderVars

\* self.set_joints()
SetJoints ==
    /\ lPc = "set_joints"
    /\ \E evaluator \in {"raises", "returns"} :
          Step("set_joints", "set_ycb_pos", set_joints(lObj, evaluator))
    /\ UNCHANGED <<lMeta, lPose, lRet, lFrame>>
    /\ UNCHANGED notLoaderVars

\* self.set_ycb_pos(pose_y)
SetYcbPos ==
    /\ lPc = "set_ycb_pos"
    /\ Step("set_ycb_pos", "return", set_ycb_pos(lObj, lPose.pose_y[1]))
    /\ UNCHANGED <<lMeta, lPose, lRet, lFrame>>
    /\ UNCHANGED notLoaderVars

\* __init__ returns: the caller holds the record.
Return ==
    /\ lPc = "return"
    /\ lPc' = "done"
    /\ lRet' = "record"
    /\ UNCHANGED <<lErr, lObj, lMeta, lPose, lFrame>>
    /\ UNCHANGED notLoaderVars

\* loader.as_dict(frame) for a frame of range(loader.get_num_frames), as
\* the exporter's process calls it.
AsDict ==
    /\ lPc = "done"
    /\ \E frame \in 0..(lObj.num_frames[1] - 1) : lFrame' = as_dict(lObj, frame)
    /\ UNCHANGED <<lPc, lErr, lObj, lMeta, lPose, lRet>>
    /\ UNCHANGED notLoaderVars

LoaderNext ==
    \/ NewSequence \/ ReadMeta \/ SetManoBeta \/ SetYcb \/ SetSide
    \/ ReadPose \/ SetMano \/ SetJoints \/ SetYcbPos \/ Return \/ AsDict

\* ----------------------------------------------------------- HandSplitIndex
\* A path text is [root, pre, body]: root is "" for a relative path or the
\* data root it was resolved against, pre is what the first component of the
\* relative part begins with before its first letter or digit (nothing, a
\* space, or '#'), body is the rest.

DataRoot == "/data/dex-ycb"

Text(root, pre, body) == [root |-> root, pre |-> pre, body |-> body]

EmptyText == Text("", "", "")

\* The relative parts, in str order.
Bodies == <<"subject-01/a", "subject-02/b", "subject-03/c", "subject-04/d">>

\* Python's str order: ' ' < '#' < '/' < digits and letters, so the first
\* character decides between a space, a '#', an absolute path and the rest;
\* after a common root the same holds for the relative part.
FirstRank(pre) == IF pre = " " THEN 0 ELSE IF pre = "#" THEN 1 ELSE 3

BodyRank(body) ==
    IF \E n \in DOMAIN Bodies : Bodies[n] = body
    THEN CHOOSE n \in DOMAIN Bodies : Bodies[n] = body
    ELSE 0

SortKey(t) ==
    IF t.root = "" THEN <<FirstRank(t.pre), BodyRank(t.body), 0>>
    ELSE <<2, FirstRank(t.pre), BodyRank(t.body)>>

StrLess(a, b) ==
    LET x == SortKey(a)
        y == SortKey(b)
    IN  \/ x[1] < y[1]
        \/ x[1] = y[1] /\ x[2] < y[2]
        \/ x[1] = y[1] /\ x[2] = y[2] /\ x[3] < y[3]

\* sorted(set(xs)) for the set S of the elements of xs.
RECURSIVE Sorted(_)
Sorted(S) ==
    IF S = {} THEN <<>>
    ELSE LET m == CHOOSE a \in S : \A b \in S \ {a} : StrLess(a, b)
         IN  <<m>> \o Sorted(S \ {m})

\* str.strip() and str.startswith('#'); trailing blanks are not modelled.
Strip(t) == IF t.root = "" /\ t.pre = " " THEN [t EXCEPT !.pre = ""] ELSE t

StartsWithHash(t) == t.root = "" /\ t.pre = "#"

\* Path.is_absolute()
IsAbsolute(t) == t.root # ""

\* The content of a meta.yml as split reads it: an empty file (None), or a
\* mapping with or without mano_sides.
SplitMetas ==
    {[isMap |-> FALSE, mano_sides |-> None], [isMap |-> TRUE, mano_sides |-> None]}
    \cup {[isMap |-> TRUE, mano_sides |-> Some(l)] :
            l \in {<<>>, <<"left">>, <<"right">>, <<"left", "right">>}}

\* The n-th sequence directory that may lie under the data root; the
\* second one has a name that begins with '#'.
Fragment(n) == Text("", IF n = 2 THEN "#" ELSE "", Bodies[n])

\* A dataset tree: the first k sequence directories, k <= MaxSeqs, each with
\* a meta.yml.
Trees ==
    UNION {[{Fragment(n) : n \in 1..k} -> SplitMetas] : k \in 0..MaxSeqs}

\* data = yaml.safe_load(f) or {}; sides = data.get("mano_sides", [])
ManoSides(meta) == IF meta.isMap THEN Get(meta.mano_sides, <<>>) ELSE <<>>

\* seq_str: relative to the root, or resolved.
SeqStr(frag, relative) == IF relative THEN frag ELSE [frag EXCEPT !.root = DataRoot]

\* The loop of split over the sorted meta.yml files: what one side's list
\* holds after it.
RECURSIVE Appended(_, _, _, _)
Appended(tree, files, side, relative) ==
    IF files = <<>> THEN <<>>
    ELSE (IF \E n \in DOMAIN ManoSides(tree[Head(files)]) :
                ManoSides(tree[Head(files)])[n] = side
          THEN <<SeqStr(Head(files), relative)>> ELSE <<>>)
         \o Appended(tree, Tail(files), side, relative)

\* A split whose second test is an elif: a sequence recorded for both sides
\* lands in 'right' only.
splitElif(tree, relative) ==
    LET files == Sorted(DOMAIN tree)
        both  == {f \in DOMAIN tree : \E n \in DOMAIN ManoSides(tree[f]) :
                        ManoSides(tree[f])[n] = "right"}
    IN  [right |-> Sorted(Range(Appended(tree, files, "right", relative))),
         left  |-> Sorted(Range(Appended(tree, files, "left", relative))
                          \ {SeqStr(f, relative) : f \in both})]

\* HandSplitIndex.split
split(tree, relative) ==
    LET files == Sorted(DOMAIN tree)
    IN  [right |-> Sorted(Range(Appended(tree, files, "right", relative))),
         left  |-> Sorted(Range(Appended(tree, files, "left", relative)))]

\* ------------------------------------------------------ split: output files
\* A file path is [dir, name]; a reference stored in a manifest is a path
\* whose dir is "" when it is relative to the manifest's directory.

Dirs == {"cfg", "alt"}

\* The out_dir the HandSplitIndex was constructed with.
SelfOutDir == "cfg"

FilePath(dir, name) == [dir |-> dir, name |-> name]

CsvName(side) == IF side = "left" THEN "left_side.csv" ELSE "right_side.csv"

YamlName == "hand_splits.yaml"

AllPaths == {FilePath(d, n) : d \in Dirs, n \in {CsvName("left"), CsvName("right"), YamlName}}

\* (yaml_path.parent / csv_rel).resolve()
Resolve(dir, ref) == IF ref.dir = "" THEN FilePath(dir, ref.name) ELSE ref

\* A manifest document: None for an empty file, else a mapping in which
\* each of the three keys may be missing.
NoDoc == [isMap |-> FALSE, data_root |-> None, left |-> None, right |-> None]

\* A file: not there, or there with csv rows or with a manifest document.
NoFile == [exists |-> FALSE, rows |-> <<>>, doc |-> NoDoc]

CsvFile(rows) == [exists |-> TRUE, rows |-> rows, doc |-> NoDoc]

YamlFile(doc) == [exists |-> TRUE, rows |-> <<>>, doc |-> doc]

\* A write_csvs that opens its files with "a": the rows go after those the
\* file already has.
write_csvsAppend(fs, splits, out) ==
    [q \in AllPaths |->
        IF q.dir = out /\ q.name = CsvName("left")
        THEN CsvFile(fs[q].rows \o [n \in DOMAIN splits.left |-> <<splits.left[n]>>])
        ELSE IF q.dir = out /\ q.name = CsvName("right")
        THEN CsvFile(fs[q].rows \o [n \in DOMAIN splits.right |-> <<splits.right[n]>>])
        ELSE fs[q]]

\* write_csvs: for each side one file out/<side>_side.csv, opened with "w",
\* one row [str(p)] per path of splits.get(side, []).
write_csvs(fs, splits, out) ==
    [q \in AllPaths |->
        IF q.dir = out /\ q.name = CsvName("left")
        THEN CsvFile([n \in DOMAIN splits.left |-> <<splits.left[n]>>])
        ELSE IF q.dir = out /\ q.name = CsvName("right")
        THEN CsvFile([n \in DOMAIN splits.right |-> <<splits.right[n]>>])
        ELSE fs[q]]

\* write_yaml: the manifest {data_root, left, right} written at ypath.
write_yaml(fs, ypath, left_rel, right_rel) ==
    [fs EXCEPT ![ypath] = YamlFile([isMap |-> TRUE, data_root |-> Some(DataRoot),
                                    left |-> Some(left_rel), right |-> Some(right_rel)])]

\* build, lines 136-145, after the split: the csvs go to out_dir, the
\* manifest to yaml_path (or out_dir/hand_splits.yaml) with the bare names
\* of the two csvs.
build(fs, splits, out_dir, yaml_path) ==
    LET ypath == IF yaml_path = None THEN FilePath(out_dir, YamlName) ELSE yaml_path[1]
    IN  [fs    |-> write_yaml(write_csvs(fs, splits, out_dir), ypath,
                              FilePath("", CsvName("left")), FilePath("", CsvName("right"))),
         ypath |-> ypath]

\* side.strip().lower() for the sides tried.
SideNorm(side) == IF side = " Right " THEN "right" ELSE side

\* The loop of read_side_paths over the rows of the listing.
RECURSIVE ReadRows(_, _, _)
ReadRows(rows, absolute, data_root) ==
    IF rows = <<>> THEN <<>>
    ELSE LET row == Head(rows)
             raw == Strip(row[1])
             p   == IF absolute /\ ~IsAbsolute(raw) THEN [raw EXCEPT !.root = data_root]
                    ELSE raw
         IN  (IF row = <<>> THEN <<>>
              ELSE IF raw = EmptyText \/ StartsWithHash(raw) THEN <<>>
              ELSE <<p>>)
             \o ReadRows(Tail(rows), absolute, data_root)

ReadResult(status, paths) == [status |-> status, paths |-> paths]

\* HandSplitIndex.read_side_paths
read_side_paths(fs, index_yaml, side, absolute) ==
    LET side_norm == SideNorm(side)
        manifest  == fs[index_yaml].doc
        csv_rel   == IF side_norm = "left" THEN manifest.left ELSE manifest.right
        csv_path  == Resolve(index_yaml.dir, csv_rel[1])
    IN  IF side_norm \notin {"left", "right"} THEN ReadResult("ValueError", <<>>)
        ELSE IF ~fs[index_yaml].exists THEN ReadResult("FileNotFoundError", <<>>)
        ELSE IF ~manifest.isMap THEN ReadResult("TypeError", <<>>)
        ELSE IF manifest.data_root = None \/ csv_rel = None THEN ReadResult("KeyError", <<>>)
        ELSE IF csv_path \notin AllPaths \/ ~fs[csv_path].exists
        THEN ReadResult("FileNotFoundError", <<>>)
        ELSE ReadResult("ok", ReadRows(fs[csv_path].rows, absolute, manifest.data_root[1]))

\* ------------------------------------------------------------ split: steps

NoFiles == [q \in AllPaths |-> NoFile]

\* Manifests that were not written by write_yaml.
ForeignDocs ==
    {NoDoc}
    \cup {[isMap |-> TRUE, data_root |-> r, left |-> l, right |-> g] :
            r \in {None, Some(DataRoot)},
            l \in {None, Some(FilePath("", CsvName("left")))},
            g \in {None, Some(FilePath("", CsvName("right")))}}

\* A listing written by hand: entries, a blank line, a comment, an entry
\* with a leading blank, an absolute entry and an empty field.
ForeignRows ==
    << <<Text("", "", Bodies[1])>>, <<>>, <<Text("", "#", Bodies[2])>>,
       <<Text("", " ", Bodies[2])>>, <<Text(DataRoot, "", Bodies[1])>>, <<EmptyText>> >>

\* An output directory found with a manifest in it, with or without the
\* two listings.
ForeignFiles ==
    {[q \in AllPaths |->
        IF q.dir # SelfOutDir THEN NoFile
        ELSE IF q.name = YamlName THEN YamlFile(doc)
        ELSE IF listings THEN CsvFile(ForeignRows) ELSE NoFile] :
      doc \in ForeignDocs, listings \in BOOLEAN}

NoRead == [done |-> FALSE, manifest |-> FilePath("", ""), side |-> "", absolute |-> FALSE,
           status |-> "", paths |-> <<>>]

\* The out_dir arguments tried: left out (self.out_dir) or another directory.
OutDirs == {None} \cup {Some(d) : d \in Dirs \ {SelfOutDir}}

\* splits = idx.split(relative=...)
Split ==
    /\ \E relative \in BOOLEAN : sSplit' = Some(split(sTree, relative))
    /\ UNCHANGED <<sTree, sFiles, sPersisted, sBuilt, sRead>>
    /\ UNCHANGED notSplitVars

\* idx.write_csvs(splits, out_dir) with the dict split returned.
WriteCsvs ==
    /\ sSplit # None
    /\ \E out_dir \in OutDirs :
          /\ sFiles' = write_csvs(sFiles, sSplit[1], Get(out_dir, SelfOutDir))
          /\ sPersisted' = [sPersisted EXCEPT ![Get(out_dir, SelfOutDir)] = sSplit]
    /\ sBuilt' = None
    /\ sRead' = NoRead
    /\ UNCHANGED <<sTree, sSplit>>
    /\ UNCHANGED notSplitVars

\* idx.write_yaml(yaml_path), the csv names left at their defaults.
WriteYaml ==
    /\ \E yaml_path \in {None} \cup {Some(FilePath(d, YamlName)) : d \in Dirs} :
          sFiles' = write_yaml(sFiles, Get(yaml_path, FilePath(SelfOutDir, YamlName)),
                               FilePath("", CsvName("left")), FilePath("", CsvName("right")))
    /\ sBuilt' = None
    /\ sRead' = NoRead
    /\ UNCHANGED <<sTree, sSplit, sPersisted>>
    /\ UNCHANGED notSplitVars

\* idx.build(relative=..., out_dir=..., yaml_path=...)
Build ==
    /\ \E relative \in BOOLEAN, out_dir \in OutDirs,
          yaml_path \in {None} \cup {Some(FilePath(d, YamlName)) : d \in Dirs} :
          LET out    == Get(out_dir, SelfOutDir)
              splits == split(sTree, relative)
              b      == build(sFiles, splits, out, yaml_path)
          IN  /\ sSplit' = Some(splits)
              /\ sFiles' = b.fs
              /\ sPersisted' = [sPersisted EXCEPT ![out] = Some(splits)]
              /\ sBuilt' = Some([out_dir |-> out, ypath |-> b.ypath])
    /\ sRead' = NoRead
    /\ UNCHANGED sTree
    /\ UNCHANGED notSplitVars

\* HandSplitIndex.read_side_paths(index_yaml, side, absolute)
ReadSidePaths ==
    /\ \E index_yaml \in {FilePath(d, YamlName) : d \in Dirs},
          side \in {"left", " Right ", "both"}, absolute \in BOOLEAN :
          LET r == read_side_paths(sFiles, index_yaml, side, absolute)
          IN  sRead' = [done |-> TRUE, manifest |-> index_yaml, side |-> side,
                        absolute |-> absolute, status |-> r.status, paths |-> r.paths]
    /\ UNCHANGED <<sTree, sFiles, sSplit, sPersisted, sBuilt>>
    /\ UNCHANGED notSplitVars

\* Scanning, persisting and loading.
SplitNext == Split \/ WriteCsvs \/ WriteYaml \/ ReadSidePaths

\* Building end to end and loading.
BuildNext == Build \/ ReadSidePaths

\* ------------------------------------------------------ DexYCBPickleExporter
\* The batch drivers: process_all (dexYCB_loader/processor.py) and
\* process_from_yaml (dex_ycb_loader/processor.py).  Both read the listing
\* of a side from the manifest and hand each entry to the per-sequence
\* routine, which constructs a DexYCBLoader and pickles as_dict(frame) for
\* every frame of range(num_frames).

\* The sequence directories a listing may name.
BatchSeq(n) == Text("", "", Bodies[n])

BatchSeqs == {BatchSeq(n) : n \in 1..MaxSeqs}

\* What a sequence directory holds, as far as the exporter meets it: whether
\* DexYCBLoader(...) returns, the num_frames of its meta.yml, and the number
\* of frames its arrays have.
SeqKinds ==
    {[loads |-> TRUE,  num_frames |-> MaxFrames, length |-> MaxFrames],
     [loads |-> FALSE, num_frames |-> MaxFrames, length |-> MaxFrames],
     [loads |-> TRUE,  num_frames |-> MaxFrames, length |-> 1]}

\* The splits a manifest may have been persisted from.
BatchSplits ==
    {[left |-> Sorted(L), right |-> Sorted(R)] : L \in SUBSET BatchSeqs, R \in SUBSET BatchSeqs}

\* self.yml: the manifest the exporter reads.
BatchYaml == FilePath(SelfOutDir, YamlName)

\* The output directory as the exporter finds it: nothing there, or the
\* listings and the manifest of a persisted split.
BatchFiles ==
    {NoFiles}
    \cup {write_yaml(write_csvs(NoFiles, splits, SelfOutDir), BatchYaml,
                     FilePath("", CsvName("left")), FilePath("", CsvName("right"))) :
            splits \in BatchSplits}

\* The sequence directory a seq_ref names under the data root.
SeqOf(seq_ref) == [seq_ref EXCEPT !.root = ""]

NoCfg == [entry |-> "", side |-> ""]

\* An exception leaves the driver: nothing in process_all,
\* process_from_yaml, process or process_sequence catches.
BatchRaise(stage, type) ==
    /\ bPc' = "raised"
    /\ bErr' = [stage |-> stage, type |-> type]

\* exporter.process_all(): sides = ["left", "right"] if self.side == "both"
\* else [self.side].
ProcessAll ==
    /\ bPc = "idle"
    /\ \E side \in {"left", "right", "both"} :
          /\ bCfg' = [entry |-> "process_all", side |-> side]
          /\ bSides' = IF side = "both" THEN <<"left", "right">> ELSE <<side>>
    /\ bPc' = "side"
    /\ UNCHANGED <<bData, bQueue, bLoader, bFrame, bOut, bErr>>
    /\ UNCHANGED notBatchVars

\* exporter.process_from_yaml(yml): the one side the exporter was made for.
ProcessFromYaml ==
    /\ bPc = "idle"
    /\ \E side \in {"left", "right"} :
          /\ bCfg' = [entry |-> "process_from_yaml", side |-> side]
          /\ bSides' = <<side>>
    /\ bPc' = "side"
    /\ UNCHANGED <<bData, bQueue, bLoader, bFrame, bOut, bErr>>
    /\ UNCHANGED notBatchVars

\* files = HandSplitIndex.read_side_paths(yml, side=side, absolute=True)
\* for the next side, or the driver returns when no side is left.
ReadListing ==
    /\ bPc = "side"
    /\ IF bSides = <<>>
       THEN bPc' = "done" /\ UNCHANGED <<bQueue, bErr>>
       ELSE LET r == read_side_paths(sFiles, BatchYaml, Head(bSides), TRUE)
            IN  IF r.status # "ok"
                THEN BatchRaise("read_side_paths", r.status) /\ UNCHANGED bQueue
                ELSE bQueue' = r.paths /\ bPc' = "seq" /\ UNCHANGED bErr
    /\ UNCHANGED <<bCfg, bData, bSides, bLoader, bFrame, bOut>>
    /\ UNCHANGED notBatchVars

\* for seq_ref in files: the next entry's DexYCBLoader(loader_key, order)
\* is constructed, or the loop over this side's entries ends.
ProcessSequence ==
    /\ bPc = "seq"
    /\ IF bQueue = <<>>
       THEN /\ bSides' = Tail(bSides)
            /\ bPc' = "side"
            /\ UNCHANGED <<bLoader, bFrame, bErr>>
       ELSE IF ~bData[SeqOf(Head(bQueue))].loads
       THEN /\ BatchRaise("DexYCBLoader", "Exception")
            /\ UNCHANGED <<bSides, bLoader, bFrame>>
       ELSE /\ bLoader' = Some(bData[SeqOf(Head(bQueue))])
            /\ bFrame' = 0
            /\ bPc' = "frame"
            /\ UNCHANGED <<bSides, bErr>>
    /\ UNCHANGED <<bCfg, bData, bQueue, bOut>>
    /\ UNCHANGED notBatchVars

\* for frame in range(num_frames): as_dict(frame) and its pickle, or the
\* sequence is done and the next entry is due.
ExportFrame ==
    /\ bPc = "frame"
    /\ IF bFrame >= bLoader[1].num_frames
       THEN /\ bQueue' = Tail(bQueue)
            /\ bLoader' = None
            /\ bPc' = "seq"
            /\ UNCHANGED <<bFrame, bOut, bErr>>
       ELSE IF bFrame >= bLoader[1].length
       THEN /\ BatchRaise("as_dict", "IndexError")
            /\ UNCHANGED <<bQueue, bLoader, bFrame, bOut>>
       ELSE /\ bOut' = bOut \cup {[side |-> Head(bSides), seq |-> SeqOf(Head(bQueue)),
                                   frame |-> bFrame]}
            /\ bFrame' = bFrame + 1
            /\ UNCHANGED <<bPc, bQueue, bLoader, bErr>>
    /\ UNCHANGED <<bCfg, bData, bSides>>
    /\ UNCHANGED notBatchVars

BatchNext == ProcessAll \/ ProcessFromYaml \/ ReadListing \/ ProcessSequence \/ ExportFrame

\* ------------------------------------------------------------ specifications

\* Two conventions are constructed (from a configuration, or the built-in
\* pair in either order); no reindexer exists yet.
InitJoints ==
    /\ \/ jSrc \in ConfigConventions /\ jDst \in ConfigConventions
       \/ jSrc = MANO21 /\ jDst = HO3D
       \/ jSrc = HO3D /\ jDst = MANO21
    /\ jR = NoReindexer /\ jInv = NoReindexer
    /\ jOrig = NoArray /\ jIn = NoArray /\ jOut = NoResult /\ jChain = <<>>
    /\ qP = <<>> /\ qOut = NoQuatOut
    /\ gFirst = NoneKey /\ gArg = NoneKey /\ gRes = NoLookup /\ gChain = <<>>
    /\ lPc = "new" /\ lErr = NoError /\ lObj = NoLoader /\ lMeta = NoMeta
    /\ lPose = NoPose /\ lRet = "none" /\ lFrame = NoFrame
    /\ bPc = "idle" /\ bCfg = NoCfg /\ bData = <<>> /\ bSides = <<>> /\ bQueue = <<>>
    /\ bLoader = None /\ bFrame = 0 /\ bOut = {} /\ bErr = NoError
    /\ sTree = <<>> /\ sFiles = NoFiles /\ sSplit = None
    /\ sPersisted = [d \in Dirs |-> None] /\ sBuilt = None /\ sRead = NoRead

\* A batch of quaternions is at hand; nothing is converted yet.
InitQuat ==
    /\ qP \in QuatBatches /\ qOut = NoQuatOut
    /\ jSrc = IdleConvention /\ jDst = IdleConvention
    /\ jR = NoReindexer /\ jInv = NoReindexer
    /\ jOrig = NoArray /\ jIn = NoArray /\ jOut = NoResult /\ jChain = <<>>
    /\ gFirst = NoneKey /\ gArg = NoneKey /\ gRes = NoLookup /\ gChain = <<>>
    /\ lPc = "new" /\ lErr = NoError /\ lObj = NoLoader /\ lMeta = NoMeta
    /\ lPose = NoPose /\ lRet = "none" /\ lFrame = NoFrame
    /\ bPc = "idle" /\ bCfg = NoCfg /\ bData = <<>> /\ bSides = <<>> /\ bQueue = <<>>
    /\ bLoader = None /\ bFrame = 0 /\ bOut = {} /\ bErr = NoError
    /\ sTree = <<>> /\ sFiles = NoFiles /\ sSplit = None
    /\ sPersisted = [d \in Dirs |-> None] /\ sBuilt = None /\ sRead = NoRead

\* The registry YCB is constructed; no lookup is made yet.
InitRegistry ==
    /\ gFirst = NoneKey /\ gArg = NoneKey /\ gRes = NoLookup /\ gChain = <<>>
    /\ jSrc = IdleConvention /\ jDst = IdleConvention
    /\ jR = NoReindexer /\ jInv = NoReindexer
    /\ jOrig = NoArray /\ jIn = NoArray /\ jOut = NoResult /\ jChain = <<>>
    /\ qP = <<>> /\ qOut = NoQuatOut
    /\ lPc = "new" /\ lErr = NoError /\ lObj = NoLoader /\ lMeta = NoMeta
    /\ lPose = NoPose /\ lRet = "none" /\ lFrame = NoFrame
    /\ bPc = "idle" /\ bCfg = NoCfg /\ bData = <<>> /\ bSides = <<>> /\ bQueue = <<>>
    /\ bLoader = None /\ bFrame = 0 /\ bOut = {} /\ bErr = NoError
    /\ sTree = <<>> /\ sFiles = NoFiles /\ sSplit = None
    /\ sPersisted = [d \in Dirs |-> None] /\ sBuilt = None /\ sRead = NoRead

\* loader_utils is imported (MANO21, HO3D and MANO_TO_HO3D exist); no
\* sequence is parsed yet.
InitLoader ==
    /\ jSrc = MANO21 /\ jDst = HO3D
    /\ jR = JointReindexer("jSrc", "jDst") /\ jInv = NoReindexer
    /\ jOrig = NoArray /\ jIn = NoArray /\ jOut = NoResult /\ jChain = <<>>
    /\ qP = <<>> /\ qOut = NoQuatOut
    /\ gFirst = NoneKey /\ gArg = NoneKey /\ gRes = NoLookup /\ gChain = <<>>
    /\ lPc = "new" /\ lErr = NoError /\ lObj = NoLoader /\ lMeta = NoMeta
    /\ lPose = NoPose /\ lRet = "none" /\ lFrame = NoFrame
    /\ bPc = "idle" /\ bCfg = NoCfg /\ bData = <<>> /\ bSides = <<>> /\ bQueue = <<>>
    /\ bLoader = None /\ bFrame = 0 /\ bOut = {} /\ bErr = NoError
    /\ sTree = <<>> /\ sFiles = NoFiles /\ sSplit = None
    /\ sPersisted = [d \in Dirs |-> None] /\ sBuilt = None /\ sRead = NoRead

\* A HandSplitIndex is constructed over a data root, with out_dir "cfg":
\* a dataset tree and empty output directories, or an output directory
\* that already holds a manifest.
InitSplit ==
    /\ \/ sTree \in Trees /\ sFiles = NoFiles
       \/ sTree = <<>> /\ sFiles \in ForeignFiles
    /\ sSplit = None /\ sPersisted = [d \in Dirs |-> None]
    /\ sBuilt = None /\ sRead = NoRead
    /\ jSrc = IdleConvention /\ jDst = IdleConvention
    /\ jR = NoReindexer /\ jInv = NoReindexer
    /\ jOrig = NoArray /\ jIn = NoArray /\ jOut = NoResult /\ jChain = <<>>
    /\ qP = <<>> /\ qOut = NoQuatOut
    /\ gFirst = NoneKey /\ gArg = NoneKey /\ gRes = NoLookup /\ gChain = <<>>
    /\ lPc = "new" /\ lErr = NoError /\ lObj = NoLoader /\ lMeta = NoMeta
    /\ lPose = NoPose /\ lRet = "none" /\ lFrame = NoFrame
    /\ bPc = "idle" /\ bCfg = NoCfg /\ bData = <<>> /\ bSides = <<>> /\ bQueue = <<>>
    /\ bLoader = None /\ bFrame = 0 /\ bOut = {} /\ bErr = NoError

\* A HandSplitIndex is constructed over a dataset tree, its output
\* directories still empty.
InitBuild ==
    /\ sTree \in Trees /\ sFiles = NoFiles
    /\ sSplit = None /\ sPersisted = [d \in Dirs |-> None]
    /\ sBuilt = None /\ sRead = NoRead
    /\ jSrc = IdleConvention /\ jDst = IdleConvention
    /\ jR = NoReindexer /\ jInv = NoReindexer
    /\ jOrig = NoArray /\ jIn = NoArray /\ jOut = NoResult /\ jChain = <<>>
    /\ qP = <<>> /\ qOut = NoQuatOut
    /\ gFirst = NoneKey /\ gArg = NoneKey /\ gRes = NoLookup /\ gChain = <<>>
    /\ lPc = "new" /\ lErr = NoError /\ lObj = NoLoader /\ lMeta = NoMeta
    /\ lPose = NoPose /\ lRet = "none" /\ lFrame = NoFrame
    /\ bPc = "idle" /\ bCfg = NoCfg /\ bData = <<>> /\ bSides = <<>> /\ bQueue = <<>>
    /\ bLoader = None /\ bFrame = 0 /\ bOut = {} /\ bErr = NoError

\* An exporter is constructed: the manifest of a persisted split (or none)
\* in its output directory, and sequence directories under the data root.
InitBatch ==
    /\ bPc = "idle" /\ bCfg = NoCfg /\ bData \in [BatchSeqs -> SeqKinds]
    /\ bSides = <<>> /\ bQueue = <<>>
    /\ bLoader = None /\ bFrame = 0 /\ bOut = {} /\ bErr = NoError
    /\ sTree = <<>> /\ sFiles \in BatchFiles /\ sSplit = None
    /\ sPersisted = [d \in Dirs |-> None] /\ sBuilt = None /\ sRead = NoRead
    /\ jSrc = IdleConvention /\ jDst = IdleConvention
    /\ jR = NoReindexer /\ jInv = NoReindexer
    /\ jOrig = NoArray /\ jIn = NoArray /\ jOut = NoResult /\ jChain = <<>>
    /\ qP = <<>> /\ qOut = NoQuatOut
    /\ gFirst = NoneKey /\ gArg = NoneKey /\ gRes = NoLookup /\ gChain = <<>>
    /\ lPc = "new" /\ lErr = NoError /\ lObj = NoLoader /\ lMeta = NoMeta
    /\ lPose = NoPose /\ lRet = "none" /\ lFrame = NoFrame

SpecJoints == InitJoints /\ [][JointsNext]_vars

SpecQuat == InitQuat /\ [][QuatNext]_vars

SpecRegistry == InitRegistry /\ [][RegNext]_vars

SpecLoader == InitLoader /\ [][LoaderNext]_vars

SpecSplit == InitSplit /\ [][SplitNext]_vars

SpecBuild == InitBuild /\ [][BuildNext]_vars

SpecBatch == InitBatch /\ [][BatchNext]_vars

\* ------------------------------------------------------------ joints: claims

\* The reindexer the last apply call was made on.
LastMapper == IF jChain[Len(jChain)] = "r" THEN jR ELSE jInv

\* The index a layout literal gives label (part, k).
LayoutIdx(layout, part, k) ==
    layout[CHOOSE n \in DOMAIN layout : layout[n].part = part].ids[k + 1]

\* A layout that assigns the indices 0..N-1 exactly once.
Partitions(layout) ==
    LET es == Entries(layout)
    IN  /\ \A m, n \in DOMAIN es : es[m].idx = es[n].idx => m = n
        /\ {es[n].idx : n \in DOMAIN es} = 0..(Len(es) - 1)

\* C1: for two conventions over the same label set and r built from them,
\* r.apply(r.inverse().apply(x)) returns x for every x shaped (..., N, D).
C1_RoundTripIsIdentity ==
    ( /\ Labels(jSrc.layout) = Labels(jDst.layout)
      /\ jR.status = "ok"
      /\ jChain # <<>>
      /\ jChain[1] = "inv"
      /\ Shape2(jOrig) = PermSize(jR.perm) )
    => /\ jOut.status = "ok"
       /\ Len(jChain) = 2 => jOut.value = jOrig

\* C1, on conventions that each assign 0..N-1 exactly once: the round trip
\* is the identity there.
C1_RoundTripOnPartitions ==
    ( /\ Partitions(jSrc.layout) /\ Partitions(jDst.layout)
      /\ Labels(jSrc.layout) = Labels(jDst.layout)
      /\ jR.status = "ok"
      /\ jChain # <<>>
      /\ jChain[1] = "inv"
      /\ Shape2(jOrig) = PermSize(jR.perm) )
    => /\ jOut.status = "ok"
       /\ Len(jChain) = 2 => jOut.value = jOrig

IsBijection(perm) ==
    /\ Range(perm) = 0..(PermSize(perm) - 1)
    /\ \A i, k \in DOMAIN perm : perm[i] = perm[k] => i = k

\* C2: the permutation of every reindexer that was constructed, by the
\* constructor or by inverse(), is a bijection on 0..N-1.
C2_PermIsBijection ==
    /\ jR.status = "ok" => IsBijection(jR.perm)
    /\ jInv.status = "ok" => IsBijection(jInv.perm)

\* C3: JointReindexer(src, dst) raises, and yields no reindexer, whenever
\* some (part, position) of dst.layout is absent from src's semantic index.
C3_MissingLabelFails ==
    ( /\ jR.status # "none"
      /\ \E s \in Labels(jDst.layout) : s \notin DOMAIN jSrc.sem_to_idx )
    => jR.status = "KeyError"

\* C3, on a destination that assigns 0..N-1 exactly once: construction
\* raises for every missing label there.
C3_MissingLabelFailsOnPartition ==
    ( /\ jR.status # "none"
      /\ Partitions(jDst.layout)
      /\ \E s \in Labels(jDst.layout) : s \notin DOMAIN jSrc.sem_to_idx )
    => jR.status = "KeyError"

\* Every joint of out sits at the `to` index of its label and came from the
\* `from` index of the same label of x.
Relabels(x, out, from, to) ==
    /\ DOMAIN out = DOMAIN x
    /\ \A b \in DOMAIN x :
          /\ DOMAIN out[b] = DOMAIN x[b]
          /\ \A n \in DOMAIN from : \A k \in 0..(Len(from[n].ids) - 1) :
                out[b][LayoutIdx(to, from[n].part, k)] = x[b][from[n].ids[k + 1]]

\* The two built-in layouts as JointConvention.__init__ indexed them: 21
\* indices each, 0..20 exactly once, over one label set.
BuiltinsPartition ==
    /\ DOMAIN MANO21.idx_to_sem = 0..20 /\ MANO21.size = 21
    /\ DOMAIN HO3D.idx_to_sem = 0..20 /\ HO3D.size = 21
    /\ Partitions(MANO21.layout) /\ Partitions(HO3D.layout)
    /\ DOMAIN MANO21.sem_to_idx = DOMAIN HO3D.sem_to_idx
    /\ Cardinality(DOMAIN MANO21.sem_to_idx) = 21

\* C4: MANO21 and HO3D each assign 0..20 exactly once over the same labels;
\* MANO_TO_HO3D puts at the HO3D index of every label the joint the input
\* holds at the MANO21 index of that label, and HO3D_TO_MANO the reverse.
C4_BuiltinsRelabel ==
    /\ BuiltinsPartition
    /\ (jSrc = MANO21 /\ jDst = HO3D) =>
          /\ jR.status \in {"none", "ok"}
          /\ (jChain # <<>> /\ Shape2(jIn) = 21) =>
                /\ jOut.status = "ok"
                /\ jChain[Len(jChain)] = "r" =>
                      Relabels(jIn, jOut.value, MANO21Layout, HO3DLayout)
                /\ jChain[Len(jChain)] = "inv" =>
                      Relabels(jIn, jOut.value, HO3DLayout, MANO21Layout)

\* C4 witness: both built-in mappers have been applied to a 21-joint array.
C4_Witness ==
    /\ jSrc = MANO21 /\ jDst = HO3D
    /\ jChain = <<"r", "inv">>
    /\ jOut.status = "ok"
    /\ Shape2(jOrig) = 21

\* C5: apply raises the shape error whenever the second-to-last dimension
\* of its argument differs from the size of the reindexer's destination
\* convention, for a constructed reindexer and for one from inverse().
C5_ShapeErrorAgainstDstSize ==
    (jChain # <<>> /\ Shape2(jIn) # Conv(LastMapper.dst).size)
    => jOut.status = "ValueError"

\* C5, against the permutation's length: that is the comparison apply makes.
C5_ShapeErrorAgainstPermSize ==
    (jChain # <<>> /\ Shape2(jIn) # PermSize(LastMapper.perm))
    => jOut.status = "ValueError"

Sign(v) == IF v > 0 THEN 1 ELSE IF v < 0 THEN -1 ELSE 0

\* The sign of an angle: atan has the sign of its argument n / w, n >= 0.
AngleSign(a) ==
    IF a.form = "pi" THEN 1
    ELSE IF a.form = "zero" THEN 0
    ELSE IF a.nsq = 0 THEN 0 ELSE Sign(a.w)

\* 0 <= angle <= pi: |2 * atan(t)| < pi for every real t.
AngleInZeroPi(a) == AngleSign(a) >= 0

\* -pi < angle <= pi.
AngleInPlusMinusPi(a) == a.form \in {"zero", "pi"} \/ (a.form = "2atan" /\ a.w # 0)

\* angle = 2 * atan(num / den) for num >= 0 and den > 0: atan is injective.
AngleIsTwoAtan(a, num, den) ==
    /\ a.form = "2atan"
    /\ a.w > 0
    /\ a.nsq * den * den = num * num * a.w * a.w

\* ||axis|| = 1
UnitLength(axis) ==
    /\ axis.densq > 0
    /\ axis.num[1] * axis.num[1] + axis.num[2] * axis.num[2]
         + axis.num[3] * axis.num[3] = axis.densq

\* axis = v, for a vector v of 0, 1 and -1.
AxisIs(axis, v) ==
    /\ axis.densq > 0
    /\ \A k \in 1..3 :
          /\ Sign(axis.num[k]) = v[k]
          /\ v[k] # 0 => axis.num[k] * axis.num[k] = axis.densq

\* C7: for every input quaternion the angle returned is in [0, pi] and the
\* axis has unit length.
C7_AngleInZeroPiUnitAxis ==
    qOut.done =>
        \A i \in DOMAIN qP :
            /\ AngleInZeroPi(qOut.angles[i])
            /\ UnitLength(qOut.axes[i])

\* C7, with the range the conversion has: the angle is in (-pi, pi],
\* negative exactly when w < 0 and the vector part is not zero, and the axis
\* has unit length.
C7_AngleInPlusMinusPiUnitAxis ==
    qOut.done =>
        \A i \in DOMAIN qP :
            /\ AngleInPlusMinusPi(qOut.angles[i])
            /\ AngleSign(qOut.angles[i]) < 0 <=> (qP[i][1] < 0 /\ NormSq(qP[i]) # 0)
            /\ UnitLength(qOut.axes[i])

\* C8: the degenerate inputs are decided by exact equality, element by
\* element: a zero vector part gives axis (1,0,0) and any other the
\* normalised vector part, a zero scalar part gives angle pi and any other
\* 2*atan(n/w); so (1,0,0,0) gives angle 0 and axis (1,0,0), (0,0,0,1) gives
\* angle pi, and (w,x,0,0) with w, x > 0 gives axis (1,0,0) and angle
\* 2*atan(x/w).
C8_DegenerateInputs ==
    qOut.done =>
        /\ DOMAIN qOut.axes = DOMAIN qP /\ DOMAIN qOut.angles = DOMAIN qP
        /\ \A i \in DOMAIN qP :
              LET q == qP[i]  axis == qOut.axes[i]  angle == qOut.angles[i]
              IN  /\ NormSq(q) = 0 => AxisIs(axis, <<1, 0, 0>>)
                  /\ NormSq(q) # 0 => axis = [num |-> <<q[2], q[3], q[4]>>,
                                              densq |-> NormSq(q)]
                  /\ q[1] = 0 => angle.form = "pi"
                  /\ q[1] # 0 => /\ angle.form = "2atan"
                                 /\ angle.nsq = NormSq(q) /\ angle.w = q[1]
                  /\ q = <<1, 0, 0, 0>> =>
                        AngleSign(angle) = 0 /\ AxisIs(axis, <<1, 0, 0>>)
                  /\ q = <<0, 0, 0, 1>> => angle.form = "pi"
                  /\ (q[1] > 0 /\ q[2] > 0 /\ q[3] = 0 /\ q[4] = 0) =>
                        /\ AxisIs(axis, <<1, 0, 0>>)
                        /\ AngleIsTwoAtan(angle, q[2], q[1])

\* C8 witness: one converted batch holds a quaternion with a zero vector
\* part next to one (w, x, 0, 0) with w, x > 0 and w # x.
C8_Witness ==
    /\ qOut.done
    /\ \E i, k \in DOMAIN qP :
          /\ NormSq(qP[i]) = 0
          /\ qP[k][1] > 0 /\ qP[k][2] > 0 /\ qP[k][1] # qP[k][2]
          /\ qP[k][3] = 0 /\ qP[k][4] = 0

\* ---------------------------------------------------------- registry: claims

RegisteredId(key) ==
    key.kind = "int" /\ \E n \in DOMAIN YCBItems : YCBItems[n][1] = key.num

RegisteredName(key) ==
    key.kind = "str" /\ \E n \in DOMAIN YCBItems : YCBItems[n][2] = key.str

\* C9: the registry holds exactly 21 (id, name) pairs, ids and names unique,
\* and the lookups undo each other: id_to_name(name_to_id(name)) = name for
\* every registered name, name_to_id(id_to_name(id)) = id for every
\* registered id.
C9_LookupsAreInverse ==
    /\ Cardinality(DOMAIN RegIdToName) = 21
    /\ Cardinality(DOMAIN RegNameToId) = 21
    /\ Len(YCBItems) = 21
    /\ (gChain # <<>> /\ gChain[1] = "name_to_id" /\ RegisteredName(gFirst)) =>
          /\ gRes.status = "ok"
          /\ Len(gChain) = 2 => gRes.val = gFirst
    /\ (gChain # <<>> /\ gChain[1] = "id_to_name" /\ RegisteredId(gFirst)) =>
          /\ gRes.status = "ok"
          /\ Len(gChain) = 2 => gRes.val = gFirst

\* C9 witness: the last registered name was looked up and its id looked up
\* back.
C9_Witness ==
    /\ gChain = <<"name_to_id", "id_to_name">>
    /\ gFirst = StrKey("061_foam_brick")
    /\ gRes.status = "ok"

\* C10: id_to_name and name_to_id raise the registry's ValueError for every
\* key that is not a registered id / name, and never return an entry.
C10_UnknownKeyRaises ==
    /\ (gChain = <<"id_to_name">> /\ ~RegisteredId(gFirst)) =>
          gRes.status = "ValueError"
    /\ (gChain = <<"name_to_id">> /\ ~RegisteredName(gFirst)) =>
          gRes.status = "ValueError"

\* C10, on int keys for id_to_name and any key for name_to_id: every
\* unregistered one raises ValueError.
C10_UnknownIntKeyRaises ==
    /\ (gChain = <<"id_to_name">> /\ gFirst.kind = "int" /\ ~RegisteredId(gFirst)) =>
          gRes.status = "ValueError"
    /\ (gChain = <<"name_to_id">> /\ ~RegisteredName(gFirst)) =>
          gRes.status = "ValueError"

\* ------------------------------------------------------------ loader: claims

\* __init__ was left by this exception, raised in this step.
RaisedAt(stage, type) == lPc = "raised" /\ lErr = [stage |-> stage, type |-> type]

\* The step has run and returned.
Passed(stage) ==
    LET order == <<"init", "read_meta", "set_mano_beta", "set_ycb", "set_side",
                   "read_pose", "set_mano", "set_joints", "set_ycb_pos", "return", "done">>
        pos(st) == CHOOSE n \in DOMAIN order : order[n] = st
    IN  IF lPc = "raised" THEN pos(lErr.stage) > pos(stage)
        ELSE lPc # "new" /\ pos(lPc) > pos(stage)

CandidateIds == Get(lMeta.ycb_ids.v, <<>>)

GraspIndexInvalid ==
    \/ CandidateIds = <<>>
    \/ lMeta.ycb_grasp_ind.v = None
    \/ lMeta.ycb_grasp_ind.v[1] < 0
    \/ lMeta.ycb_grasp_ind.v[1] >= Len(CandidateIds)

GraspedIsRegistryName ==
    /\ Passed("set_ycb")
    /\ lObj.objName = Some(RegIdToName[CandidateIds[lMeta.ycb_grasp_ind.v[1] + 1]])

RecordFields == DOMAIN NoLoader \ {"order"}

WellShapedArchive ==
    LET m == lPose.pose_m[1].shape
        y == lPose.pose_y[1].shape
    IN  /\ Len(m) = 3 /\ m[2] = 1 /\ m[3] = PoseMWidth
        /\ Len(y) = 3 /\ y[3] = PoseYWidth

\* C13: once pose.npz was looked for: absent, the parse ends with
\* FileNotFoundError; lacking one of the two arrays, with KeyError; and with
\* an array of another shape than (T, 1, 51) and (T, O, 7) it does not
\* come to return a record.
C13_MalformedArchiveRejected ==
    lPose.read =>
        IF ~lPose.exists THEN RaisedAt("read_pose", "FileNotFoundError")
        ELSE IF lPose.pose_m = None \/ lPose.pose_y = None
        THEN RaisedAt("read_pose", "KeyError")
        ELSE (~WellShapedArchive => lPc \notin {"return", "done"})

\* C14: in a record the caller holds, handPose, handTrans, objRot, objTrans
\* and handJoints3D all have num_frames frames, and no as_dict(frame) with
\* frame in range(num_frames) fails.
C14_ArraysShareFrameCount ==
    lRet = "record" =>
        /\ \A a \in DOMAIN LeadingLengths(lObj) :
              LeadingLengths(lObj)[a] = lObj.num_frames[1]
        /\ lFrame.status # "IndexError"

\* The convention an order names.
Requested(order) ==
    IF order.kind = "conv" THEN order.conv
    ELSE IF order.str = "ho3d" THEN HO3D ELSE MANO21

\* The joints array lists the evaluator's joints in the convention c: at
\* index i is the joint that MANO21 keeps under c's label of i.
ExpressedIn(joints, c) ==
    LET native == Arange(Cardinality(DOMAIN joints), NumJoints)
    IN  \A b \in DOMAIN joints :
            /\ DOMAIN joints[b] = DOMAIN c.idx_to_sem
            /\ \A i \in DOMAIN joints[b] :
                  joints[b][i] = native[b][MANO21.sem_to_idx[c.idx_to_sem[i]]]

\* C15: in a record the caller holds, handJoints3D is expressed in the
\* convention that 'order' names, for "mano", "ho3d" and any JointConvention.
C15_OrderTagNamesLayout ==
    lRet = "record" => ExpressedIn(lObj.handJoints3D[1], Requested(lObj.order))

\* C16: a record the caller holds has the first recorded side of meta.yml
\* as its side, and that side is "left" or "right"; with no recorded side,
\* or another first entry, the parse does not come to return a record.
C16_SideIsFirstRecordedSide ==
    /\ lRet = "record" =>
          /\ lObj.side = Some(Get(lMeta.mano_sides.v, <<>>)[1])
          /\ lObj.side[1] \in {"left", "right"}
    /\ (lMeta.mano_sides.read /\ (Get(lMeta.mano_sides.v, <<>>) = <<>>
            \/ Get(lMeta.mano_sides.v, <<>>)[1] \notin {"left", "right"})
          => lPc \notin {"return", "done"})

\* ------------------------------------------------------- claims on the split

\* The sequences of the tree whose metadata records the side.
Recorded(side) ==
    {f \in DOMAIN sTree : \E n \in DOMAIN ManoSides(sTree[f]) : ManoSides(sTree[f])[n] = side}

\* A list in strictly increasing str order: sorted and free of duplicates.
StrictlySorted(l) == \A i \in DOMAIN l : \A j \in DOMAIN l : i < j => StrLess(l[i], l[j])

\* C17: the dict split returns holds, for each side, a strictly increasing
\* (sorted, duplicate-free) list whose elements are exactly the fragments of
\* the sequences whose metadata records that side: a sequence recording both
\* sides is in both lists, one recording none (empty list, no mano_sides
\* key, empty file) is in neither, and nothing else is listed.
C17_SplitListsRecordedSides ==
    sSplit # None =>
        \E relative \in BOOLEAN :
            \A side \in {"left", "right"} :
                /\ StrictlySorted(sSplit[1][side])
                /\ Range(sSplit[1][side]) = {SeqStr(f, relative) : f \in Recorded(side)}

\* A split was taken of a tree with a sequence of both sides next to one of
\* no side.
C17_Witness ==
    /\ sSplit # None
    /\ \E f \in DOMAIN sTree : f \in Recorded("left") /\ f \in Recorded("right")
    /\ \E f \in DOMAIN sTree : f \notin Recorded("left") /\ f \notin Recorded("right")
    /\ Len(sSplit[1].left) = 1 /\ Len(sSplit[1].right) = 1

\* The manifest write_yaml writes with its default listing names.
DefaultManifest ==
    [isMap |-> TRUE, data_root |-> Some(DataRoot),
     left |-> Some(FilePath("", CsvName("left"))), right |-> Some(FilePath("", CsvName("right")))]

\* C18: once a split was persisted into a directory (write_csvs, and the
\* manifest of write_yaml beside the listings), read_side_paths with
\* absolute=False on that manifest succeeds and returns, for either side,
\* the very list that was persisted, same fragments in the same order.
C18_PersistLoadRoundTrip ==
    (/\ sRead.done
     /\ ~sRead.absolute
     /\ SideNorm(sRead.side) \in {"left", "right"}
     /\ sPersisted[sRead.manifest.dir] # None
     /\ sFiles[sRead.manifest] = YamlFile(DefaultManifest))
    => /\ sRead.status = "ok"
       /\ sRead.paths = sPersisted[sRead.manifest.dir][1][SideNorm(sRead.side)]

\* C19: after a build, the manifest at the returned path refers, for both
\* sides, to the listing the build wrote into out_dir, when its entry is
\* resolved against the manifest's directory; a read_side_paths on that
\* manifest therefore succeeds.
C19_BuildManifestFindsListings ==
    sBuilt # None =>
        /\ \A side \in {"left", "right"} :
              Resolve(sBuilt[1].ypath.dir, sFiles[sBuilt[1].ypath].doc[side][1])
                  = FilePath(sBuilt[1].out_dir, CsvName(side))
        /\ (sRead.done /\ sRead.manifest = sBuilt[1].ypath
                /\ SideNorm(sRead.side) \in {"left", "right"})
              => sRead.status = "ok"

\* C20: a read_side_paths with a valid side on a manifest file that exists
\* raises KeyError whenever the content lacks data_root or the key of the
\* side, raises FileNotFoundError when both are there and the listing is
\* not, and returns no list in either case.
C20_IncompleteManifestRaises ==
    (/\ sRead.done
     /\ SideNorm(sRead.side) \in {"left", "right"}
     /\ sFiles[sRead.manifest].exists)
    => LET doc == sFiles[sRead.manifest].doc
           ref == doc[SideNorm(sRead.side)]
       IN  IF ~doc.isMap \/ doc.data_root = None \/ ref = None
           THEN sRead.status = "KeyError" /\ sRead.paths = <<>>
           ELSE ~sFiles[Resolve(sRead.manifest.dir, ref[1])].exists
                    => sRead.status = "FileNotFoundError" /\ sRead.paths = <<>>

\* The entries a listing stands for: its lines in file order, the blank
\* ones and those whose first character is '#' left out; raw, or joined
\* onto data_root unless already absolute.
RECURSIVE ListedEntries(_, _, _)
ListedEntries(rows, absolute, data_root) ==
    IF rows = <<>> THEN <<>>
    ELSE LET row == Head(rows)
         IN  (IF row = <<>> THEN <<>>
              ELSE IF row[1] = EmptyText \/ (row[1].root = "" /\ row[1].pre = "#") THEN <<>>
              ELSE IF absolute /\ row[1].root = "" THEN <<[row[1] EXCEPT !.root = data_root]>>
              ELSE <<row[1]>>)
             \o ListedEntries(Tail(rows), absolute, data_root)

\* C21: a read_side_paths that returns gives one entry per line of the
\* listing that is neither blank nor begins with '#', in file order: the
\* fragment exactly as the line stores it when absolute=False, the fragment
\* joined onto the manifest's data_root when absolute=True, an absolute
\* entry unchanged.
C21_ReadReturnsListedEntries ==
    (sRead.done /\ sRead.status = "ok")
    => LET doc == sFiles[sRead.manifest].doc
           csv == Resolve(sRead.manifest.dir, doc[SideNorm(sRead.side)][1])
       IN  sRead.paths = ListedEntries(sFiles[csv].rows, sRead.absolute, doc.data_root[1])

\* The body-model evaluator was invoked: set_joints raised, or left joints.
EvaluatorInvoked == RaisedAt("set_joints", "EvaluatorError") \/ lObj.handJoints3D # None

\* The object array of the archive passes split_pose_y for the grasp index.
ObjectPoseExtractable ==
    /\ lPose.pose_y # None
    /\ lObj.grasp_ind # None
    /\ split_pose_y(lPose.pose_y[1], lObj.grasp_ind[1]).err = ""

\* C22: the stages run in the order Resolve, ReadMetadata (calibration,
\* grasp fields, side, frame count), ReadPoseArchive (hand array split,
\* object pose extraction), ComputeJoints: what a stage fills is there only
\* when the stages before it have filled theirs, the evaluator is invoked
\* only once the object pose was extracted, and an archive whose object
\* array is bad is reported by the extraction, not by the evaluator.
C22_StagesInSpecOrder ==
    /\ lObj.grasp_ind # None => lObj.handBeta # None
    /\ lObj.side # None => lObj.objName # None
    /\ lObj.num_frames # None => lObj.side # None
    /\ lPose.read => lObj.num_frames # None
    /\ lObj.handPose # None => lPose.read /\ lObj.handTrans # None
    /\ EvaluatorInvoked => lObj.handPose # None /\ lObj.objRot # None /\ lObj.objTrans # None
    /\ RaisedAt("set_joints", "EvaluatorError") => ObjectPoseExtractable

ListingOf(l) == CsvFile([n \in DOMAIN l |-> <<l[n]>>])

\* C24: persisting overwrites: after every step, each directory a split was
\* persisted into holds, for each side, a listing with exactly the entries
\* of the split last persisted there, whatever the files held before (so
\* persisting the same split again leaves them as they are); and a
\* write_yaml leaves at its path exactly the manifest of the data root and
\* the two listing names, every other file untouched.
C24_PersistOverwrites ==
    [][/\ \A d \in Dirs : sPersisted'[d] # None =>
              \A side \in {"left", "right"} :
                  sFiles'[FilePath(d, CsvName(side))] = ListingOf(sPersisted'[d][1][side])
       /\ WriteYaml =>
              \E d \in Dirs :
                  sFiles' = [sFiles EXCEPT ![FilePath(d, YamlName)] = YamlFile(DefaultManifest)]
      ]_vars

\* A split with entries persisted under a manifest, and read back.
C24_Witness ==
    /\ sPersisted[SelfOutDir] # None
    /\ sPersisted[SelfOutDir][1].right # <<>>
    /\ sFiles[FilePath(SelfOutDir, CsvName("right"))] = ListingOf(sPersisted[SelfOutDir][1].right)
    /\ sFiles[FilePath(SelfOutDir, YamlName)] = YamlFile(DefaultManifest)
    /\ sRead.done /\ sRead.status = "ok"

\* ------------------------------------------------------- claims on the batch

\* The sides the driver was asked to process.
SidesAsked == IF bCfg.side = "both" THEN {"left", "right"} ELSE {bCfg.side}

\* The entries the listing of a side names.
ListedFor(side) == read_side_paths(sFiles, BatchYaml, side, TRUE).paths

\* C25: the batch driver is not ended by the failure of one sequence: no
\* exception of a sequence's parse or export leaves it, and when it has
\* ended, every sequence of the listings it was asked for whose parse and
\* export succeed has all its frames pickled.
C25_BatchSurvivesSequenceFailure ==
    /\ ~(bPc = "raised" /\ bErr.stage \in {"DexYCBLoader", "as_dict"})
    /\ bPc \in {"done", "raised"} =>
          \A side \in SidesAsked : \A n \in DOMAIN ListedFor(side) :
              LET seq == SeqOf(ListedFor(side)[n])
              IN  (bData[seq].loads /\ bData[seq].length >= bData[seq].num_frames)
                  => \A f \in 0..(bData[seq].num_frames - 1) :
                        [side |-> side, seq |-> seq, frame |-> f] \in bOut

====
